---- MODULE Spec2Model ----
(***************************************************************************)
(* koa-match / koa-layer: Layer (path, method and content-type matching    *)
(* with a per-request trace) and the check() middleware that answers       *)
(* OPTIONS, 405 and 501 from the finished trace.                           *)
(*                                                                         *)
(* The current sources are the Layer class printed in README.md (the one   *)
(* the tests drive through Layer.check) and the negotiator accepts.ts.     *)
(***************************************************************************)
EXTENDS Integers, Sequences, FiniteSets, TLC

VARIABLES
  app,        \* which application (middleware tree) was assembled
  optv,       \* node id -> LayerOptions given to `new Layer(options)`
  chk,        \* CheckMiddlewareOptions given to Layer.check(options)
  layer,      \* node id -> the constructed Layer object (or NoLayer)
  method,     \* request -> ctx.method
  path,       \* request -> ctx.path
  accept,     \* request -> ctx.headers.accept
  httpVersion,\* request -> ctx.req.httpVersion
  res,        \* request -> the response: status, body, Allow, headerSent
  hasTrace,   \* request -> ctx.state.layers is an Array
  layers,     \* request -> ctx.state.layers, the trace
  params,     \* request -> ctx.params
  frames,     \* request -> suspended callbacks awaiting their continuation
  cur,        \* request -> the middleware about to be dispatched
  pc,         \* request -> position of the request's flow
  seen,       \* request -> what the last check() inspection saw and decided
  lastIndex,  \* matchMultiRegex.lastIndex: the header regex is global (/g)
  called,     \* the last call made directly on the library, and its outcome
  asked       \* request -> the gates its last Layer invocation consulted, in order

vars == <<app, optv, chk, layer, method, path, accept, httpVersion, res, hasTrace,
          layers, params, frames, cur, pc, seen, lastIndex, called, asked>>

-----------------------------------------------------------------------------
(* Bounds of the model *)

\* longest `methods` iterable drawn for the freely configured Layer
MaxMethods == 2

\* every request has a ctx of its own and a constructed Layer is never
\* written again, so a behaviour follows one request
Requests == {1}

-----------------------------------------------------------------------------
(* Small values *)

None == [t |-> "none"]
Str(s) == [t |-> "str", v |-> s]
Iter(q) == [t |-> "iter", q |-> q]
Fn(n) == [t |-> "fn", f |-> n]
\* a value that is neither a string nor a function (a number, an object ...)
Other == [t |-> "other"]
\* `typeof options.path === 'string'`
PathStr(p) == [t |-> "str", p |-> p]
\* a Map, an Array and a header value, as opposed to None (`undefined`)
Map(m) == [t |-> "map", m |-> m]
Arr(a) == [t |-> "arr", a |-> a]
List(l) == [t |-> "list", l |-> l]
Header(h) == [t |-> "hdr", h |-> h]
Flag(f) == [t |-> "flag", f |-> f]

Range(q) == {q[i] : i \in 1..Len(q)}

\* q with x appended unless already present: Set.prototype.add on an
\* insertion-ordered Set
\* SetAddFront puts a new member first.
SetAddFront(q, x) == IF x \in Range(q) THEN q ELSE <<x>> \o q
SetAdd(q, x) == IF x \in Range(q) THEN q ELSE Append(q, x)

RECURSIVE SetAddAll(_, _)
SetAddAll(q, xs) ==
  IF xs = <<>> THEN q ELSE SetAddAll(SetAdd(q, Head(xs)), Tail(xs))

\* String.prototype.toUpperCase on the method tokens of the model
toUpperCase(s) ==
  CASE s \in {"get", "Get", "GET"} -> "GET"
    [] s \in {"head", "Head", "HEAD"} -> "HEAD"
    [] s \in {"post", "POST"} -> "POST"
    [] s \in {"put", "PUT"} -> "PUT"
    [] s \in {"patch", "PATCH"} -> "PATCH"
    [] s \in {"delete", "DELETE"} -> "DELETE"
    [] s \in {"options", "OPTIONS"} -> "OPTIONS"
    [] s \in {"trace", "TRACE"} -> "TRACE"
    [] OTHER -> s

\* mime-types lookup(): extension -> media type, or false
lookup(t) ==
  CASE t = "json" -> Str("application/json")
    [] t = "html" -> Str("text/html")
    [] t = "txt" -> Str("text/plain")
    [] OTHER -> Other

\* String.prototype.includes('/') on the accept candidates of the model
includesSlash(t) == t \in {"application/json", "text/html", "text/plain", "image/png"}

\* the type and subtype halves of matchSingleRegex on an offered media type
TypeOf(full) ==
  CASE full = "application/json" -> "application"
    [] full = "text/html" -> "text"
    [] full = "text/plain" -> "text"
    [] full = "image/png" -> "image"
    [] OTHER -> full

SubTypeOf(full) ==
  CASE full = "application/json" -> "json"
    [] full = "text/html" -> "html"
    [] full = "text/plain" -> "plain"
    [] full = "image/png" -> "png"
    [] OTHER -> full

default_methods == <<"OPTIONS", "GET", "HEAD", "POST", "PUT", "PATCH", "DELETE">>

-----------------------------------------------------------------------------
(* Layer construction *)

\* A path pattern as written by the caller: `slash` says the text starts with
\* "/", `star` that it is exactly "*", `toks` are its segments, each a literal
\* or a named parameter (`rest`: the parameter is written :name(.*), `opt`:
\* it carries the ? suffix).
Pattern(slash, star, toks) == [slash |-> slash, star |-> star, toks |-> toks]
Lit(s) == [k |-> "lit", v |-> s, rest |-> FALSE, opt |-> FALSE]
Key(name) == [k |-> "key", v |-> name, rest |-> FALSE, opt |-> FALSE]
RestKey(name, opt) == [k |-> "key", v |-> name, rest |-> TRUE, opt |-> opt]

NoPath == Pattern(FALSE, FALSE, <<>>)

LayerOptions(p, m, ms, a, as, h, hs, c) ==
  [path |-> p, method |-> m, methods |-> ms, accept |-> a, accepts |-> as,
   handler |-> h, handlers |-> hs, conditional |-> c]

NoOptions == LayerOptions(None, None, None, None, None, None, None, FALSE)

\* the strings of an iterable option, in order, non-strings dropped
RECURSIVE StringsOf(_)
StringsOf(q) ==
  IF q = <<>> THEN <<>>
  ELSE IF Head(q).t = "str" THEN <<Head(q).v>> \o StringsOf(Tail(q))
  ELSE StringsOf(Tail(q))

\* the functions of an iterable option, in order, non-functions dropped
RECURSIVE FunctionsOf(_)
FunctionsOf(q) ==
  IF q = <<>> THEN <<>>
  ELSE IF Head(q).t = "fn" THEN <<Head(q)>> \o FunctionsOf(Tail(q))
  ELSE FunctionsOf(Tail(q))

\* every string of a list upper-cased
UpperCased(q) == [i \in 1..Len(q) |-> toUpperCase(q[i])]

\* path-to-regexp fills `keys` with the named parameters of the pattern
RECURSIVE KeysOf(_)
KeysOf(toks) ==
  IF toks = <<>> THEN <<>>
  ELSE IF Head(toks).k = "key" THEN <<Head(toks).v>> \o KeysOf(Tail(toks))
  ELSE KeysOf(Tail(toks))

\* "add slash when not present"
NormalizePath(p) ==
  IF ~p.slash /\ ~p.star THEN Pattern(TRUE, FALSE, p.toks) ELSE p

\* methods collected from `method` and `methods`, upper-cased
CollectMethods(o) ==
  LET one == IF o.method.t = "str" THEN <<toUpperCase(o.method.v)>> ELSE <<>>
      many == IF o.methods.t = "str" THEN <<toUpperCase(o.methods.v)>>
              ELSE IF o.methods.t = "iter"
                   THEN UpperCased(StringsOf(o.methods.q))
              ELSE <<>>
  IN SetAddAll(<<>>, one \o many)

\* "Add head if GET is present, disregarding if previous added."
\* AddHeadNever is the constructor without that step.
AddHeadNever(ms) == ms
AddHead(ms) == IF "GET" \in Range(ms) THEN SetAdd(ms, "HEAD") ELSE ms

\* accept candidates mapped through lookup() and filtered to strings
RECURSIVE LookupAll(_)
LookupAll(q) ==
  IF q = <<>> THEN <<>>
  ELSE LET t == Head(q)
           m == IF includesSlash(t) THEN Str(t) ELSE lookup(t)
       IN (IF m.t = "str" THEN <<m.v>> ELSE <<>>) \o LookupAll(Tail(q))

CollectAccepts(o) ==
  LET one == IF o.accept.t = "str" THEN <<o.accept.v>> ELSE <<>>
      many == IF o.accepts.t = "str" THEN <<o.accepts.v>>
              ELSE IF o.accepts.t = "iter" THEN StringsOf(o.accepts.q)
              ELSE <<>>
  IN SetAddAll(<<>>, LookupAll(one \o many))

CollectStack(o) ==
  LET one == IF o.handler.t = "fn" THEN <<o.handler>> ELSE <<>>
      many == IF o.handlers.t = "fn" THEN <<o.handlers>>
              ELSE IF o.handlers.t = "iter" THEN FunctionsOf(o.handlers.q)
              ELSE <<>>
  IN one \o many

\* new Layer(options)
NewLayer(o) ==
  LET hasPath == o.path.t = "str"
      p == IF hasPath THEN NormalizePath(o.path.p) ELSE NoPath
      keys == IF hasPath THEN KeysOf(p.toks) ELSE <<>>
      stack == CollectStack(o)
      single_star == hasPath /\ p.star
  IN [hasPath |-> hasPath,
      path |-> p,
      keys |-> keys,
      methods |-> AddHead(CollectMethods(o)),
      accepts |-> CollectAccepts(o),
      stack |-> stack,
      conditional |-> o.conditional,
      threw |-> \E i \in 1..Len(stack) : stack[i].t # "fn",
      single_star |-> single_star,
      no_params |-> ~single_star /\ keys = <<>>]

NoLayer == [hasPath |-> FALSE, path |-> NoPath, keys |-> <<>>, methods |-> <<>>,
            accepts |-> <<>>, stack |-> <<>>, conditional |-> FALSE,
            threw |-> TRUE, single_star |-> FALSE, no_params |-> FALSE]

\* Layer.method: "!this.methods.size || this.methods.has(method)"
MethodGate(l, m) == l.methods = <<>> \/ m \in Range(l.methods)

-----------------------------------------------------------------------------
(* Layer.match: path matching and parameter extraction *)

\* A request path: None when the host supplies none (or the empty string),
\* else Path(slash, segs): `slash` says it starts with "/", `segs` are the
\* texts between the slashes.
Path(slash, segs) == [t |-> "path", slash |-> slash, segs |-> segs]

Undefined == [t |-> "undefined"]
Val(segs) == [t |-> "val", v |-> segs]

\* decodeURIComponent throws URIError on a malformed escape
Malformed(seg) == seg \in {"%zz", "%"}

decodeURIComponent(seg) ==
  CASE seg = "%41" -> "A"
    [] seg = "%2B1" -> "+1"
    [] OTHER -> seg

\* safeDecodeURIComponent on a captured text (one or more segments);
\* keepEncoded returns the component as it came, without trying to decode it
keepEncoded(segs) == segs
safeDecodeURIComponent(segs) ==
  IF \E i \in 1..Len(segs) : Malformed(segs[i]) THEN segs
  ELSE [i \in 1..Len(segs) |-> decodeURIComponent(segs[i])]

NoMatch == [ok |-> FALSE, caps |-> <<>>]

\* this.regexp.exec(path): the captures of the compiled pattern, in key order
RECURSIVE Exec(_, _)
Exec(toks, segs) ==
  IF toks = <<>> THEN [ok |-> segs = <<>>, caps |-> <<>>]
  ELSE LET tk == Head(toks) IN
    IF tk.k = "lit"
    THEN IF segs # <<>> /\ Head(segs) = tk.v THEN Exec(Tail(toks), Tail(segs))
         ELSE NoMatch
    ELSE IF segs = <<>>
    THEN IF tk.opt
         THEN LET r == Exec(Tail(toks), <<>>)
              IN [ok |-> r.ok, caps |-> <<Undefined>> \o r.caps]
         ELSE NoMatch
    ELSE IF tk.rest
    THEN LET r == Exec(Tail(toks), <<>>)
         IN [ok |-> r.ok, caps |-> <<Val(segs)>> \o r.caps]
    ELSE LET r == Exec(Tail(toks), Tail(segs))
         IN [ok |-> r.ok, caps |-> <<Val(<<Head(segs)>>)>> \o r.caps]

\* "capture ? safeDecodeURIComponent(capture) : capture"
DecodeCapture(c) == IF c.t = "val" THEN Val(safeDecodeURIComponent(c.v)) ELSE c

\* Layer.match(path): None for `undefined`, else the Map of parameters as a
\* sequence of <<key, value>> in insertion order. Layer_matchPathFirst looks
\* at the request path before it looks at the pattern.
Layer_matchPathFirst(l, p) ==
  IF p.t = "none" THEN None
  ELSE IF ~l.hasPath THEN Map(<<>>)
  ELSE IF l.single_star THEN Map(<< <<"0", Val(safeDecodeURIComponent(p.segs))>> >>)
  ELSE LET r == Exec(l.path.toks, p.segs) IN
    IF ~r.ok THEN None
    ELSE IF l.no_params THEN Map(<<>>)
    ELSE Map([i \in 1..Len(r.caps) |-> <<l.keys[i], DecodeCapture(r.caps[i])>>])
Layer_match(l, p) ==
  IF ~l.hasPath THEN Map(<<>>)
  ELSE IF p.t = "none" THEN None
  ELSE IF l.single_star THEN Map(<< <<"0", Val(safeDecodeURIComponent(p.segs))>> >>)
  ELSE LET r == Exec(l.path.toks, p.segs) IN
    IF ~r.ok THEN None
    ELSE IF l.no_params THEN Map(<<>>)
    ELSE Map([i \in 1..Len(r.caps) |-> <<l.keys[i], DecodeCapture(r.caps[i])>>])

-----------------------------------------------------------------------------
(* accepts.ts: content negotiation *)

\* One media range of an Accept header as the header regex splits it:
\* q is None or Q(tenths), params the other parameters as <<key, value>>.
MediaRange(type, sub, q, ps) == [type |-> type, sub_type |-> sub, q |-> q, params |-> ps]

toLowerCase(s) ==
  CASE s = "TEXT" -> "text"
    [] s = "HTML" -> "html"
    [] s = "JSON" -> "json"
    [] OTHER -> s

\* quality `1`, in tenths
FullQuality == 10

\* parseItem(match, index, quality)
parseItem(type, sub, q, ps, index, quality) ==
  [type |-> type, sub_type |-> sub,
   quality |-> IF q.t = "num" THEN q.n ELSE quality,
   params |-> ps, flags |-> 0, index |-> index, other_index |-> -1]

\* String.prototype.length of the tokens the headers are written with
length(s) ==
  CASE s = "" -> 0
    [] s \in {"*", "v", "1"} -> 1
    [] s \in {"text", "TEXT", "html", "json"} -> 4
    [] s \in {"plain", "image", "level"} -> 5
    [] s = "png" -> 3
    [] s = "application" -> 11

\* s.substring(k), for the cuts that a stale lastIndex makes in a type
substring(s, k) ==
  IF k = 0 THEN s
  ELSE CASE s = "application" /\ k = 4 -> "ication"
         [] s = "image" /\ k = 1 -> "mage"

\* a parameter as it is written: `;key=value`, or `;key` without a value
NoValue(p) == Len(p) < 2
ParamLength(p) == 1 + length(p[1]) + (IF NoValue(p) THEN 0 ELSE 1 + length(p[2]))
RECURSIVE ParamsLength(_)
ParamsLength(ps) ==
  IF ps = <<>> THEN 0 ELSE ParamLength(Head(ps)) + ParamsLength(Tail(ps))

\* `;q=0` or `;q=0.8`
QLength(q) == IF q.t # "num" THEN 0 ELSE IF q.n = 0 THEN 4 ELSE 6

\* the text of one media range: type/sub_type, then q, then the parameters
RangeLength(mr) ==
  length(mr.type) + 1 + length(mr.sub_type) + QLength(mr.q) + ParamsLength(mr.params)

\* header text: the media ranges joined by `, `
RECURSIVE EndOf(_, _)
EndOf(h, i) == IF i = 0 THEN -2 ELSE EndOf(h, i - 1) + 2 + RangeLength(h.h[i])
StartOf(h, i) == EndOf(h, i) - RangeLength(h.h[i])
HeaderLength(h) == IF h.t = "none" THEN 9 ELSE IF h.h = <<>> THEN 0 ELSE EndOf(h, Len(h.h))

\* matchMultiRegex.exec(header) with the regex's lastIndex at `from`: the
\* search starts there, so the first media range that still has a character
\* of its type at or after `from` matches, with its type cut short when
\* `from` lies inside it. A match leaves lastIndex at its end; no match
\* (match 0) resets lastIndex to 0.
exec(h, from) ==
  LET found == IF h.t = "none" \/ from > HeaderLength(h) THEN {}
               ELSE {i \in 1..Len(h.h) : from < StartOf(h, i) + length(h.h[i].type)}
  IN IF found = {} THEN [match |-> 0, cut |-> 0, lastIndex |-> 0]
     ELSE LET i == CHOOSE i \in found : \A j \in found : i <= j IN
            [match |-> i,
             cut |-> IF from > StartOf(h, i) THEN from - StartOf(h, i) ELSE 0,
             lastIndex |-> EndOf(h, i)]

\* splitParameters(params_string) throws a TypeError on a parameter without `=`
splitThrows(ps) == \E i \in 1..Len(ps) : NoValue(ps[i])

\* parseHeader(header), collected by Array.from: index counts from 0. The
\* result carries the items, whether parseItem threw, and the lastIndex the
\* regex is left with.
RECURSIVE parseFrom(_, _, _)
RECURSIVE parseMatch(_, _, _)
\* the body of the loop, for the match m that exec() returned
parseMatch(h, m, items) ==
  IF m.match = 0 THEN [items |-> items, threw |-> FALSE, lastIndex |-> 0]
  ELSE LET mr == h.h[m.match] IN
    IF splitThrows(mr.params)
    THEN [items |-> <<>>, threw |-> TRUE, lastIndex |-> m.lastIndex]
    ELSE parseFrom(h, m.lastIndex,
                   Append(items, parseItem(substring(mr.type, m.cut), mr.sub_type, mr.q,
                                           mr.params, Len(items), FullQuality)))
parseFrom(h, from, items) == parseMatch(h, exec(h, from), items)
parseHeader(h, from) == parseFrom(h, from, <<>>)

\* a | b on MatchingFlag values (NONE 0, PARAMS 1, SUBTYPE 2, TYPE 3)
BitOr(a, b) ==
  LET lo == IF a % 2 = 1 \/ b % 2 = 1 THEN 1 ELSE 0
      hi == IF a \div 2 = 1 \/ b \div 2 = 1 THEN 2 ELSE 0
  IN hi + lo

\* flagItem(item, ref): None for `undefined`
flagItem(item, ref) ==
  LET typeEq == toLowerCase(ref.type) = toLowerCase(item.type)
      subEq == toLowerCase(ref.sub_type) = toLowerCase(item.sub_type)
      f1 == IF typeEq THEN 3 ELSE 0
      f2 == IF subEq THEN BitOr(f1, 2) ELSE f1
      \* item.params is a Map, so item.params[k] is undefined and compares as ''
      psOk == \A i \in 1..Len(ref.params) :
                 ref.params[i][2] = "*" \/ toLowerCase(ref.params[i][2]) = ""
  IN IF ~typeEq /\ ref.type # "*" THEN None
     ELSE IF ~subEq /\ ref.sub_type # "*" THEN None
     ELSE IF ref.params # <<>>
          THEN IF psOk THEN Flag(BitOr(f2, 1)) ELSE None
     ELSE Flag(f2)

\* a || b || c on numbers
Or3(a, b, c) == IF a # 0 THEN a ELSE IF b # 0 THEN b ELSE c

\* priority(item, ref)
RECURSIVE priority(_, _)
priority(item, ref) ==
  IF ref = <<>> THEN item
  ELSE LET accepted == Head(ref)
           flag == flagItem(item, accepted)
           better == flag.t = "flag"
                     /\ Or3(item.flags - flag.f,
                            item.quality - accepted.quality,
                            item.other_index - accepted.index) < 0
       IN priority(IF better
                   THEN [item EXCEPT !.flags = flag.f,
                                     !.quality = accepted.quality,
                                     !.other_index = accepted.index]
                   ELSE item,
                   Tail(ref))

isQuality(parsed) == parsed.quality > 0

\* compareSpecsOffered leaves out the position in the header
compareSpecsOffered(a, b) ==
  Or3(b.quality - a.quality, b.flags - a.flags, a.index - b.index)
compareSpecs(a, b) ==
  Or3(b.quality - a.quality, b.flags - a.flags,
      Or3(a.other_index - b.other_index, a.index - b.index, 0))

\* Array.prototype.filter(isQuality)
RECURSIVE FilterQuality(_)
FilterQuality(q) ==
  IF q = <<>> THEN <<>>
  ELSE (IF isQuality(Head(q)) THEN <<Head(q)>> ELSE <<>>) \o FilterQuality(Tail(q))

\* Array.prototype.sort(compareSpecs): stable
RECURSIVE Insert(_, _)
Insert(x, sorted) ==
  IF sorted = <<>> THEN <<x>>
  ELSE IF compareSpecs(x, Head(sorted)) < 0 THEN <<x>> \o sorted
  ELSE <<Head(sorted)>> \o Insert(x, Tail(sorted))

RECURSIVE Sort(_)
Sort(q) == IF q = <<>> THEN <<>> ELSE Insert(q[Len(q)], Sort(SubSeq(q, 1, Len(q) - 1)))

\* the offered types ranked against the parsed header
rank(accepted, provided) ==
  LET items == [i \in 1..Len(provided) |->
                  priority(parseItem(TypeOf(provided[i]), SubTypeOf(provided[i]),
                                     None, <<>>, i - 1, 0) @@
                           [full_type |-> provided[i]],
                           accepted)]
  IN Sort(FilterQuality(items))

\* accepts(header, provided) with an iterable `provided`, called with the
\* header regex's lastIndex at `from`: value is the array returned
Returned(v, li) == [threw |-> FALSE, value |-> v, lastIndex |-> li]
Thrown(li) == [threw |-> TRUE, value |-> None, lastIndex |-> li]
rankParsed(parsed, provided) ==
  IF parsed.threw THEN Thrown(parsed.lastIndex)
  ELSE Returned(Arr(rank(parsed.items, provided)), parsed.lastIndex)
accepts(header, provided, from) == rankParsed(parseHeader(header, from), provided)

\* Layer.accept(header): Arr(list) for an array, None for `undefined`.
\* AcceptEarlier is the method as it was before: undefined without a header.
AcceptEarlier(l, header, from) ==
  IF header.t = "none" THEN Returned(None, from)
  ELSE IF l.accepts = <<>> THEN Returned(Arr(<<>>), from)
  ELSE accepts(header, l.accepts, from)
Layer_accept(l, header, from) ==
  IF l.accepts = <<>> THEN Returned(Arr(<<>>), from) ELSE accepts(header, l.accepts, from)

-----------------------------------------------------------------------------
(* The applications: middleware trees as the tests assemble them *)

\* A middleware of an application. kind "layer": Layer.match(options) with the
\* options held in optv; kind "check": Layer.check(options); kind "handler":
\* a plain middleware that applies one of `effect`, then calls next() or not
\* (`next`). parent is the Layer whose stack holds it, 0 for app.use().
LayerNode(parent) ==
  [kind |-> "layer", parent |-> parent, effect |-> {}, next |-> {}, text |-> ""]
CheckNode(parent) ==
  [kind |-> "check", parent |-> parent, effect |-> {}, next |-> {}, text |-> ""]
MnaNode(parent) ==
  [kind |-> "mna", parent |-> parent, effect |-> {}, next |-> {}, text |-> ""]
HandlerNode(parent, effect, next, text) ==
  [kind |-> "handler", parent |-> parent, effect |-> effect, next |-> next, text |-> text]

Methods(q) == Iter([i \in 1..Len(q) |-> Str(q[i])])
Handlers(q) == Iter([i \in 1..Len(q) |-> Fn(q[i])])
Root == Path(TRUE, <<>>)

\* create_test_app_1(Layer.check())
Tree1 ==
  <<LayerNode(0), HandlerNode(1, {"body"}, {FALSE}, "delete"),
    CheckNode(0),
    LayerNode(0),
      LayerNode(4), HandlerNode(5, {"body"}, {FALSE}, "put"),
      LayerNode(4),
        LayerNode(7), HandlerNode(8, {"body"}, {FALSE}, "post"),
    LayerNode(0), HandlerNode(10, {"body"}, {FALSE}, "get")>>
Top1 == <<1, 3, 4, 10>>
Options1 ==
  [n \in {1, 4, 5, 7, 8, 10} |->
     CASE n = 1 -> LayerOptions(None, Str("delete"), None, None, None, Fn(2), None, FALSE)
       [] n = 4 -> LayerOptions(None, None, Methods(<<"get", "put", "post">>), None, None,
                                None, Handlers(<<5, 7>>), TRUE)
       [] n = 5 -> LayerOptions(None, Str("put"), None, None, None, Fn(6), None, FALSE)
       [] n = 7 -> LayerOptions(None, None, Methods(<<"get", "post">>), None, None,
                                Fn(8), None, TRUE)
       [] n = 8 -> LayerOptions(None, Str("post"), None, None, None, Fn(9), None, FALSE)
       [] n = 10 -> LayerOptions(None, Str("get"), None, None, None, Fn(11), None, FALSE)]

\* create_test_app_2(Layer.check()): check() mounted inside a Layer
Tree2 ==
  <<LayerNode(0), HandlerNode(1, {"body"}, {FALSE}, "delete"),
    LayerNode(0),
      CheckNode(3),
      LayerNode(3), HandlerNode(5, {"body", "none"}, {FALSE}, "post"),
    LayerNode(0), HandlerNode(7, {"body"}, {TRUE}, "get")>>
Top2 == <<1, 3, 7>>
Options2 ==
  [n \in {1, 3, 5, 7} |->
     CASE n = 1 -> LayerOptions(None, Str("delete"), None, None, None, Fn(2), None, FALSE)
       [] n = 3 -> LayerOptions(None, None, Methods(<<"get", "post">>), None, None,
                                None, Handlers(<<4, 5>>), FALSE)
       [] n = 5 -> LayerOptions(None, Str("post"), None, None, None, Fn(6), None, FALSE)
       [] n = 7 -> LayerOptions(None, Str("get"), None, None, None, Fn(8), None, FALSE)]

\* create_test_app_3(Layer.check())
Tree3 ==
  <<CheckNode(0),
    LayerNode(0),
      LayerNode(2), HandlerNode(3, {"none"}, {TRUE}, ""),
      LayerNode(2), HandlerNode(5, {"none"}, {FALSE}, ""),
      LayerNode(2), HandlerNode(7, {"body"}, {FALSE}, "put"),
    LayerNode(0), HandlerNode(9, {"status"}, {FALSE}, "")>>
Top3 == <<1, 2, 9>>
Options3 ==
  [n \in {2, 3, 5, 7, 9} |->
     CASE n = 2 -> LayerOptions(None, None, Methods(<<"post", "put", "delete">>), None, None,
                                None, Handlers(<<3, 5, 7>>), FALSE)
       [] n = 3 -> LayerOptions(None, None, Methods(<<"post", "put">>), None, None,
                                Fn(4), None, FALSE)
       [] n = 5 -> LayerOptions(None, Str("post"), None, None, None, Fn(6), None, FALSE)
       [] n = 7 -> LayerOptions(None, Str("put"), None, None, None, Fn(8), None, FALSE)
       [] n = 9 -> LayerOptions(None, None, Methods(<<"get", "delete">>), None, None,
                                Fn(10), None, TRUE)]

\* 'should support 501 Not Implemented': check(), then a Layer with only a
\* handler that neither answers nor continues
Tree4 == <<CheckNode(0), LayerNode(0), HandlerNode(2, {"none"}, {FALSE}, "")>>
Top4 == <<1, 2>>
Options4 ==
  [n \in {2} |-> LayerOptions(None, None, None, None, None, Fn(3), None, FALSE)]

\* A Layer whose method options are drawn freely, behind check()
Tree5 ==
  <<CheckNode(0), LayerNode(0), HandlerNode(2, {"none", "body"}, {TRUE, FALSE}, "m")>>
Top5 == <<1, 2>>

SeqsUpTo(S, k) == UNION {[1..n -> S] : n \in 0..k}

MethodChoices == {None} \cup {Str(t) : t \in {"get", "Get", "HEAD", "post", "options"}}
MethodsChoices ==
  {None, Str("get"), Str("put")}
    \cup {Iter(q) : q \in SeqsUpTo({Str("get"), Str("PUT"), Str("head"), Other}, MaxMethods)}
Options5 ==
  {[n \in {2} |-> LayerOptions(None, m, ms, None, None, Fn(3), None, FALSE)] :
     m \in MethodChoices, ms \in MethodsChoices}

\* A Layer whose accepted types are drawn, followed by a catch-all Layer
Tree6 ==
  <<CheckNode(0),
    LayerNode(0), HandlerNode(2, {"none", "body"}, {TRUE, FALSE}, "n"),
    LayerNode(0), HandlerNode(4, {"body"}, {FALSE}, "fallback")>>
Top6 == <<1, 2, 4>>
AcceptChoices == {None, Str("json"), Str("nope")}
AcceptsChoices ==
  {None, Str("html"), Iter(<<Str("json"), Str("text/html")>>),
   Iter(<<Str("text/plain"), Other>>)}
Options6 ==
  {[n \in {2, 4} |->
      IF n = 2 THEN LayerOptions(None, None, None, a, as, Fn(3), None, FALSE)
      ELSE LayerOptions(None, None, None, None, None, Fn(5), None, FALSE)] :
     a \in AcceptChoices, as \in AcceptsChoices}

Q(n) == [t |-> "num", n |-> n]
AcceptHeaders ==
  {None,
   Header(<<MediaRange("text", "html", Q(8), <<>>), MediaRange("application", "json", None, <<>>)>>),
   Header(<<MediaRange("text", "plain", None, <<>>)>>),
   Header(<<MediaRange("*", "*", Q(0), <<>>)>>),
   Header(<<MediaRange("application", "json", Q(0), <<>>), MediaRange("*", "*", Q(5), <<>>)>>),
   Header(<<MediaRange("TEXT", "*", Q(5), <<>>), MediaRange("image", "png", None, <<>>)>>),
   Header(<<MediaRange("text", "html", None, << <<"level", "1">> >>),
         MediaRange("application", "json", Q(3), << <<"v", "*">> >>)>>),
   Header(<<MediaRange("text", "html", None, <<>>), MediaRange("application", "json", None, <<>>)>>),
   Header(<<MediaRange("text", "html", Q(0), <<>>), MediaRange("text", "*", Q(5), <<>>)>>),
   \* `text/html;level` and `application/json, text/html;level`: a parameter
   \* without a value
   Header(<<MediaRange("text", "html", None, << <<"level">> >>)>>),
   Header(<<MediaRange("application", "json", None, <<>>),
            MediaRange("text", "html", None, << <<"level">> >>)>>)}

\* Layers with path patterns sharing parameter names
Tree7 ==
  <<CheckNode(0),
    LayerNode(0), HandlerNode(2, {"none"}, {TRUE}, ""),
    LayerNode(0),
      HandlerNode(4, {"none"}, {TRUE}, ""),
      LayerNode(4), HandlerNode(6, {"none", "body"}, {TRUE, FALSE}, "user"),
    LayerNode(0), HandlerNode(8, {"none", "body"}, {FALSE}, "endpoint 2"),
    LayerNode(0), HandlerNode(10, {"body"}, {FALSE}, "x")>>
Top7 == <<1, 2, 4, 8, 10>>
Options7 ==
  [n \in {2, 4, 6, 8, 10} |->
     CASE n = 2 -> LayerOptions(PathStr(Pattern(TRUE, FALSE, <<Key("id"), Key("x")>>)),
                                None, None, None, None, Fn(3), None, FALSE)
       [] n = 4 -> LayerOptions(PathStr(Pattern(FALSE, FALSE, <<Lit("users"), Key("id")>>)),
                                None, None, None, None, None, Handlers(<<5, 6>>), TRUE)
       [] n = 6 -> LayerOptions(PathStr(Pattern(FALSE, TRUE, <<>>)),
                                None, None, None, None, Fn(7), None, FALSE)
       [] n = 8 -> LayerOptions(PathStr(Pattern(FALSE, FALSE,
                                            <<Lit("endpoint2"), RestKey("path", TRUE)>>)),
                                None, None, None, None, Fn(9), None, FALSE)
       [] n = 10 -> LayerOptions(PathStr(Pattern(TRUE, FALSE,
                                             <<Lit("users"), Key("id"), Key("x")>>)),
                                 None, None, None, None, Fn(11), None, FALSE)]
Paths7 ==
  {None, Root, Path(TRUE, <<"users", "42">>), Path(FALSE, <<"users", "42">>),
   Path(TRUE, <<"users", "%41">>), Path(TRUE, <<"users", "%zz">>),
   Path(TRUE, <<"endpoint2">>), Path(TRUE, <<"endpoint2", "+1">>),
   Path(TRUE, <<"endpoint2", "%41", "%zz">>), Path(TRUE, <<"users", "42", "x">>)}

\* Nested Layers with guards, a check() inside a Layer and one at the root,
\* handlers that answer, send, or do nothing, and a Layer without handlers
Tree8 ==
  <<CheckNode(0),
    LayerNode(0),
      LayerNode(2), HandlerNode(3, {"none", "body"}, {TRUE, FALSE}, "g4"),
      HandlerNode(2, {"none", "notfound", "sent", "sendok"}, {TRUE, FALSE}, "g5"),
    LayerNode(0),
      CheckNode(6),
      HandlerNode(6, {"none", "status"}, {TRUE, FALSE}, ""),
    LayerNode(0),
    HandlerNode(0, {"none", "body"}, {FALSE}, "default route")>>
Top8 == <<1, 2, 6, 9, 10>>
Options8 ==
  [n \in {2, 3, 6, 9} |->
     CASE n = 2 -> LayerOptions(None, None, None, None, None, None, Handlers(<<3, 5>>), TRUE)
       [] n = 3 -> LayerOptions(None, None, Methods(<<"post", "put">>), None, None,
                                Fn(4), None, TRUE)
       [] n = 6 -> LayerOptions(None, Str("put"), None, None, None,
                                None, Handlers(<<7, 8>>), FALSE)
       [] n = 9 -> LayerOptions(None, None, Methods(<<"delete">>), None, None,
                                None, None, FALSE)]

\* Two Layers behind check(): one for POST, one that negotiates json and
\* html and whose handler answers with the preferred type, then continues
Tree9 ==
  <<CheckNode(0),
    LayerNode(0), HandlerNode(2, {"body"}, {FALSE}, "post"),
    LayerNode(0), HandlerNode(4, {"preferred"}, {TRUE}, "")>>
Top9 == <<1, 2, 4>>
Options9 ==
  [n \in {2, 4} |->
     IF n = 2 THEN LayerOptions(None, Str("post"), None, None, None, Fn(3), None, FALSE)
     ELSE LayerOptions(None, None, None, None, Iter(<<Str("json"), Str("html")>>),
                       Fn(5), None, FALSE)]

\* create_test_app_1() of the tests of Layer.method_not_allowed
Tree10 ==
  <<LayerNode(0), HandlerNode(1, {"body"}, {FALSE}, "endpoint 1"),
    MnaNode(0),
    LayerNode(0),
      LayerNode(4), HandlerNode(5, {"body"}, {FALSE}, "endpoint 2"),
      LayerNode(4),
        LayerNode(7), HandlerNode(8, {"body"}, {FALSE}, "endpoint 3"),
    HandlerNode(0, {"body"}, {FALSE}, "default route")>>
Top10 == <<1, 3, 4, 10>>
Options10 ==
  [n \in {1, 4, 5, 7, 8} |->
     CASE n = 1 -> LayerOptions(PathStr(Pattern(FALSE, FALSE, <<Lit("endpoint1")>>)),
                                Str("DELETE"), None, None, None, Fn(2), None, FALSE)
       [] n = 4 -> LayerOptions(PathStr(Pattern(FALSE, FALSE,
                                            <<Lit("endpoint2"), RestKey("path", TRUE)>>)),
                                None, Methods(<<"get", "put", "post">>), None, None,
                                None, Handlers(<<5, 7>>), FALSE)
       [] n = 5 -> LayerOptions(None, Str("put"), None, None, None, Fn(6), None, TRUE)
       [] n = 7 -> LayerOptions(None, None, Methods(<<"get", "post">>), None, None,
                                Fn(8), None, TRUE)
       [] n = 8 -> LayerOptions(None, Str("post"), None, None, None, Fn(9), None, TRUE)]
Paths10 ==
  {Root, Path(TRUE, <<"endpoint1">>), Path(TRUE, <<"endpoint2">>),
   Path(TRUE, <<"endpoint2", "+1">>)}

\* method_not_allowed ahead of a Layer for GET and a Layer for POST and PUT
\* with a Layer for PUT in its stack; the handlers answer, answer 404
\* themselves (with a text or with ''), send, or do nothing
Tree11 ==
  <<MnaNode(0),
    LayerNode(0), HandlerNode(2, {"none", "body"}, {TRUE, FALSE}, "get"),
    LayerNode(0),
      LayerNode(4), HandlerNode(5, {"none", "body"}, {TRUE, FALSE}, "put"),
      HandlerNode(4, {"none", "status", "notfound", "blank", "sent"}, {TRUE, FALSE}, "gone"),
    LayerNode(0), HandlerNode(8, {"none"}, {TRUE}, "")>>
Top11 == <<1, 2, 4, 8>>
Options11 ==
  [n \in {2, 4, 5, 8} |->
     CASE n = 2 -> LayerOptions(None, Str("get"), None, None, None, Fn(3), None, FALSE)
       [] n = 4 -> LayerOptions(None, None, Methods(<<"post", "put">>), None, None,
                                None, Handlers(<<5, 7>>), FALSE)
       [] n = 5 -> LayerOptions(None, Str("put"), None, None, None, Fn(6), None, FALSE)
       [] n = 8 -> LayerOptions(None, None, None, None, None, Fn(9), None, TRUE)]

\* method_not_allowed ahead of one Layer for POST and PUT, the last of the
\* application, with a Layer for PUT in its stack and a handler that does
\* nothing and may call next()
Tree12 ==
  <<MnaNode(0),
    LayerNode(0),
      LayerNode(2), HandlerNode(3, {"body"}, {FALSE}, "put"),
      HandlerNode(2, {"none"}, {TRUE, FALSE}, "")>>
Top12 == <<1, 2>>
Options12 ==
  [n \in {2, 3} |->
     CASE n = 2 -> LayerOptions(None, None, Methods(<<"post", "put">>), None, None,
                                None, Handlers(<<3, 5>>), FALSE)
       [] n = 3 -> LayerOptions(None, Str("put"), None, None, None, Fn(4), None, FALSE)]

\* check() ahead of a plain middleware that answers, sends or does nothing
\* and may end the request before the one Layer of the application is reached
Tree13 ==
  <<CheckNode(0),
    HandlerNode(0, {"none", "body", "sent"}, {TRUE, FALSE}, "early"),
    LayerNode(0), HandlerNode(3, {"body"}, {FALSE}, "get")>>
Top13 == <<1, 2, 3>>
Options13 ==
  [n \in {3} |-> LayerOptions(None, Str("get"), None, None, None, Fn(4), None, FALSE)]

\* CheckMiddlewareOptions: methodNotAllowd and notImplemented are "unset",
\* "true" or "factory" (a zero-argument function)
CheckOptions(th, mna, ni) == [throw |-> th, methodNotAllowd |-> mna, notImplemented |-> ni]
DefaultCheck == CheckOptions(FALSE, "unset", "unset")
CheckChoices ==
  {DefaultCheck, CheckOptions(TRUE, "unset", "unset"),
   CheckOptions(FALSE, "factory", "true"), CheckOptions(FALSE, "unset", "factory"),
   CheckOptions(TRUE, "factory", "factory")}

Apps == (1..8) \cup {13}

Tree(a) ==
  CASE a = 1 -> Tree1 [] a = 2 -> Tree2 [] a = 3 -> Tree3 [] a = 4 -> Tree4
    [] a = 5 -> Tree5 [] a = 6 -> Tree6 [] a = 7 -> Tree7 [] a = 8 -> Tree8
    [] a = 9 -> Tree9 [] a = 10 -> Tree10 [] a = 11 -> Tree11
    [] a = 12 -> Tree12 [] a = 13 -> Tree13

Top(a) ==
  CASE a = 1 -> Top1 [] a = 2 -> Top2 [] a = 3 -> Top3 [] a = 4 -> Top4
    [] a = 5 -> Top5 [] a = 6 -> Top6 [] a = 7 -> Top7 [] a = 8 -> Top8
    [] a = 9 -> Top9 [] a = 10 -> Top10 [] a = 11 -> Top11
    [] a = 12 -> Top12 [] a = 13 -> Top13

OptionChoices(a) ==
  CASE a = 1 -> {Options1} [] a = 2 -> {Options2} [] a = 3 -> {Options3}
    [] a = 4 -> {Options4} [] a = 5 -> Options5 [] a = 6 -> Options6
    [] a = 7 -> {Options7} [] a = 8 -> {Options8} [] a = 9 -> {Options9}
    [] a = 10 -> {Options10} [] a = 11 -> {Options11} [] a = 12 -> {Options12}
    [] a = 13 -> {Options13}

StandardMethods == {"GET", "HEAD", "POST", "PUT", "PATCH", "DELETE", "OPTIONS"}

\* the request methods, paths, Accept headers and check() options tried on
\* each application
RequestMethods(a) ==
  CASE a \in {1, 2, 3} -> StandardMethods
    [] a = 4 -> {"GET", "POST", "OPTIONS", "TRACE"}
    [] a = 5 -> StandardMethods \cup {"get", "TRACE"}
    [] a = 6 -> {"GET", "OPTIONS"}
    [] a = 7 -> {"GET"}
    [] a = 8 -> {"GET", "POST", "PUT", "DELETE", "OPTIONS", "TRACE"}
    [] a = 13 -> {"GET", "POST", "OPTIONS", "TRACE"}
RequestPaths(a) ==
  CASE a = 4 -> {Path(TRUE, <<"123">>)} [] a = 7 -> Paths7 [] OTHER -> {Root}
RequestAccepts(a) == IF a = 6 THEN AcceptHeaders ELSE {None}
CheckOptionsOf(a) == IF a \in {8, 13} THEN CheckChoices ELSE {DefaultCheck}

-----------------------------------------------------------------------------
(* The response, as the host will send it *)

Response(st, ex, b, al, sent) ==
  [status |-> st, explicit |-> ex, body |-> b, allow |-> al, headerSent |-> sent]

\* koa: res.statusCode = 404 until a middleware answers
Unhandled == 404
FreshResponse == Response(Unhandled, FALSE, None, None, FALSE)

\* what a plain middleware does to the response; once the headers are sent
\* the host ignores further writes
ApplyEffect(rs, e, text) ==
  IF rs.headerSent THEN rs
  ELSE CASE e \in {"body", "preferred"} ->
              [rs EXCEPT !.body = Str(text),
                         !.status = IF rs.explicit THEN rs.status ELSE 200]
         [] e = "status" -> [rs EXCEPT !.status = 200, !.explicit = TRUE]
         [] e = "notfound" ->
              [rs EXCEPT !.status = 404, !.explicit = TRUE, !.body = Str(text)]
         [] e = "blank" ->
              [rs EXCEPT !.status = 404, !.explicit = TRUE, !.body = Str("")]
         [] e = "sent" -> [rs EXCEPT !.headerSent = TRUE]
         [] e = "sendok" ->
              [rs EXCEPT !.status = 200, !.explicit = TRUE, !.headerSent = TRUE]
         [] OTHER -> rs

\* ctx.body = b; ctx.status = st; ctx.set('Allow', al)
Write(rs, b, st, al) ==
  IF rs.headerSent THEN rs
  ELSE [rs EXCEPT !.body = b, !.status = st, !.explicit = TRUE, !.allow = List(al)]

-----------------------------------------------------------------------------
(* Layer.callback: the gates *)

\* ctx.state.preferred: "Most recent preferred mime type", as the text a
\* handler answers with ("none" for undefined)
RECURSIVE Preferred(_)
Preferred(ls) ==
  IF ls = <<>> THEN "none"
  ELSE LET state == ls[Len(ls)] IN
         IF state.accepted.t = "arr" /\ state.accepted.a # <<>>
         THEN state.accepted.a[1].full_type
         ELSE Preferred(SubSeq(ls, 1, Len(ls) - 1))

\* the entry pushed by skip(params)
SkipEntry(n, index, ps) ==
  [layer |-> n, index |-> index, length |-> 0, done |-> TRUE,
   accepted |-> None, params |-> ps]

\* the entry pushed by a matching Layer
MatchEntry(n, index, ps, ac) ==
  [layer |-> n, index |-> index, length |-> -1, done |-> FALSE,
   accepted |-> ac, params |-> ps]

\* an entry of a Layer whose gates all passed
Matched(e) == e.length # 0

\* The decision of one callback invocation: `c` is what the conditional
\* answers when it is consulted. gate names the first failing gate.
\* `from` is the header regex's lastIndex when the callback runs; threw says
\* that this.accept() threw, lastIndex is what the regex is left with.
Decision(match, gate, ps, ac, threw, li, asked_) ==
  [match |-> match, gate |-> gate, params |-> ps, accepted |-> ac,
   threw |-> threw, lastIndex |-> li, asked |-> asked_]
\* the last gate: "const accepted = this.accept(ctx.headers.accept)";
\* before lists the gates consulted ahead of it
AcceptGate(ps, ac, before) ==
  IF ac.threw
  THEN Decision(FALSE, "accept", ps, None, TRUE, ac.lastIndex, Append(before, "accept"))
  ELSE IF ac.value.t = "none"
  THEN Decision(FALSE, "accept", ps, None, FALSE, ac.lastIndex, Append(before, "accept"))
  ELSE Decision(TRUE, "", ps, ac.value, FALSE, ac.lastIndex, Append(before, "accept"))

\* "this.conditional && !(await this.conditional(ctx))": the function is
\* called only when one is configured
Guarded(l) == IF l.conditional THEN <<"conditional">> ELSE <<>>

\* the gates of the callback, in its order
Decide(l, m, c, p, h, from) ==
  IF ~MethodGate(l, m)
  THEN Decision(FALSE, "method", None, None, FALSE, from, <<"method">>)
  ELSE IF l.conditional /\ ~c
  THEN Decision(FALSE, "conditional", None, None, FALSE, from, <<"method", "conditional">>)
  ELSE LET ps == Layer_match(l, p) IN
    IF ps.t = "none"
    THEN Decision(FALSE, "path", None, None, FALSE, from,
                  <<"method">> \o Guarded(l) \o <<"path">>)
    ELSE AcceptGate(ps, Layer_accept(l, h, from), <<"method">> \o Guarded(l) \o <<"path">>)

ParamKeys == {"0", "id", "x", "path"}
Absent == [t |-> "absent"]
NoParams == [k \in ParamKeys |-> Absent]

\* "for (const [k, v] of params) ctx.params[k] = v". MergeKeep writes only
\* the names that have no value yet.
RECURSIVE MergeKeep(_, _)
MergeKeep(pm, map) ==
  IF map = <<>> THEN pm
  ELSE MergeKeep(IF pm[Head(map)[1]] = Absent
                 THEN [pm EXCEPT ![Head(map)[1]] = Head(map)[2]] ELSE pm,
                 Tail(map))
RECURSIVE Merge(_, _)
Merge(pm, map) ==
  IF map = <<>> THEN pm
  ELSE Merge([pm EXCEPT ![Head(map)[1]] = Head(map)[2]], Tail(map))

-----------------------------------------------------------------------------
(* koa-compose: who runs next *)

Node(n) == [t |-> "node", n |-> n]
\* the continuation a Layer hands to its composed stack
Wrap(n) == [t |-> "wrap", n |-> n]
\* past the last middleware of the application
End == [t |-> "end", n |-> 0]

StackOf(p) ==
  IF p = 0 THEN Top(app)
  ELSE [i \in 1..Len(layer[p].stack) |-> layer[p].stack[i].f]

\* dispatch(i + 1) in the stack of p
After(p, i) ==
  IF i < Len(StackOf(p)) THEN Node(StackOf(p)[i + 1])
  ELSE IF p = 0 THEN End ELSE Wrap(p)

IndexIn(q, n) == CHOOSE i \in 1..Len(q) : q[i] = n

NextOf(n) ==
  LET p == Tree(app)[n].parent IN After(p, IndexIn(StackOf(p), n))

Frame(n, index) == [node |-> n, index |-> index]

KindOf(r) == IF cur[r].t = "node" THEN Tree(app)[cur[r].n].kind ELSE cur[r].t

-----------------------------------------------------------------------------
(* Layer.check *)

\* "if (layer.methods.size) layer.methods.forEach((method) =>
\* methods.add(method))": what an entry adds to the methods, matched or not.
\* DeclaredIfMatched adds the methods of matched entries only.
DeclaredIfMatched(e) == IF e.length # 0 THEN layer[e.layer].methods ELSE <<>>
Declared(e) == layer[e.layer].methods

\* "Skip all except tailing layers": the entries to pass over after entry e
\* of a trace of len entries. SkipAfterWhole counts e itself among them,
\* SkipAfterTail passes over the entries under the one that reaches the end.
SkipAfterTail(e, len) ==
  IF e.length > 1 /\ e.index + e.length = len THEN e.length - 1 ELSE 0
SkipAfterWhole(e, len) ==
  IF e.length > 1 /\ e.index + e.length < len THEN e.length ELSE 0
SkipAfter(e, len) ==
  IF e.length > 1 /\ e.index + e.length < len THEN e.length - 1 ELSE 0

\* "Found a 501": `!done && length === 1`. FoundMiss is the test for an entry
\* pushed by skip(), FoundNotDone the test of the done flag alone, FoundLeaf
\* the test of the length alone.
FoundLeaf(e) == e.length = 1
FoundNotDone(e) == ~e.done
FoundMiss(e) == e.done /\ e.length = 0
Found501(e) == ~e.done /\ e.length = 1

\* The loop over the trace: i is the position, ms the methods gathered so far
\* (OPTIONS first), skip the counter, top the positions not skipped. at is the
\* position of the entry found to be a 501, or 0.
RECURSIVE Walk(_, _, _, _, _)
Walk(ls, i, ms, skip, top) ==
  IF i > Len(ls) THEN [ni |-> FALSE, at |-> 0, methods |-> ms, top |-> top]
  ELSE LET e == ls[i]
           ms2 == SetAddAll(ms, Declared(e))
       IN IF skip > 0 THEN Walk(ls, i + 1, ms2, skip - 1, top)
          ELSE IF Found501(e)
          THEN [ni |-> TRUE, at |-> i, methods |-> ms2, top |-> Append(top, i)]
          ELSE Walk(ls, i + 1, ms2, SkipAfter(e, Len(ls)), Append(top, i))

\* "Set default methods if no methods was added". OrDefaultNever leaves the
\* methods as they were gathered.
OrDefaultNever(ms) == ms
OrDefault(ms) == IF Len(ms) > 1 THEN ms ELSE default_methods

\* "methods.has(ctx.method)"; HasNot is the test inverted
HasNot(ms, m) == m \notin Range(ms)
Has(ms, m) == m \in Range(ms)

\* "if (ctx.headerSent && !options.throw || !(!ctx.status || ctx.status ===
\* 404) || !ctx.state.layers) return": nothing is left for check() to do.
\* SettledUnlessTraced is the guard without its look at the status,
\* SettledWithoutTrace the guard without its look at ctx.state.layers.
SettledWithoutTrace(o, rs, traced) ==
  (rs.headerSent /\ ~o.throw) \/ ~(rs.status = 0 \/ rs.status = Unhandled)
SettledUnlessTraced(o, rs, traced) == (rs.headerSent /\ ~o.throw) \/ ~traced
Settled(o, rs, traced) ==
  (rs.headerSent /\ ~o.throw) \/ ~(rs.status = 0 \/ rs.status = Unhandled) \/ ~traced

\* "if (options.throw || options.notImplemented)", and the same with
\* options.methodNotAllowd: check() throws instead of writing. ThrowsIfNamed
\* looks at the named option only.
ThrowsIfNamed(o, named) == named # "unset"
Throws(o, named) == o.throw \/ named # "unset"

\* The 501 is answered inside the loop, ahead of the branch for OPTIONS,
\* whatever the method m; w is the outcome of the walk. AfterOptions gives
\* the branch for OPTIONS the first place.
AfterOptions(w, m) == w.ni /\ m # "OPTIONS"
InsideTheLoop(w, m) == w.ni

\* The code of check() after `await next()`: what it does for options o,
\* request method m, response rs and trace ls. kind is "return" (the guard
\* returned), "501", "200", "405", "pass" (nothing to do) or "throw".
check(o, m, rs, traced, ls) ==
  IF Settled(o, rs, traced)
  THEN [kind |-> "return", res |-> rs, raised |-> "", at |-> 0]
  ELSE LET w == Walk(ls, 1, <<"OPTIONS">>, 0, <<>>)
           ms == OrDefault(w.methods)
       IN IF InsideTheLoop(w, m)
          THEN IF Throws(o, o.notImplemented)
               THEN [kind |-> "throw", res |-> rs, at |-> w.at,
                     raised |-> IF o.notImplemented = "factory" THEN "custom"
                                ELSE "NotImplemented"]
               ELSE [kind |-> "501", res |-> Write(rs, None, 501, ms),
                     raised |-> "", at |-> w.at]
          ELSE IF m = "OPTIONS"
          THEN [kind |-> "200", res |-> Write(rs, Str(""), 200, ms), raised |-> "", at |-> 0]
          ELSE IF ~Has(ms, m)
          THEN IF Throws(o, o.methodNotAllowd)
               THEN [kind |-> "throw", res |-> rs, at |-> 0,
                     raised |-> IF o.methodNotAllowd = "factory" THEN "custom"
                                ELSE "MethodNotAllowed"]
               ELSE [kind |-> "405", res |-> Write(rs, None, 405, ms), raised |-> "", at |-> 0]
          ELSE [kind |-> "pass", res |-> rs, raised |-> "", at |-> 0]

\* nothing inspected yet
NotSeen ==
  [n |-> 0, kind |-> "", raised |-> "", at |-> 0, before |-> FreshResponse,
   after |-> FreshResponse, traced |-> FALSE, trace |-> <<>>, by |-> 0]

-----------------------------------------------------------------------------
(* Initial states *)

\* no call was made on the library directly
NotCalled == [now |-> [op |-> "none"], kept |-> [op |-> "none"]]

InitApp ==
  /\ app \in Apps
  /\ optv \in OptionChoices(app)
  /\ chk \in CheckOptionsOf(app)
  /\ layer = [n \in DOMAIN optv |-> NoLayer]

\* the request arrives with a method, a path and an Accept header
InitRequests ==
  \E m \in RequestMethods(app), p \in RequestPaths(app), h \in RequestAccepts(app) :
    /\ method = [r \in Requests |-> m]
    /\ path = [r \in Requests |-> p]
    /\ accept = [r \in Requests |-> h]
    /\ httpVersion = [r \in Requests |-> "1.1"]
    /\ pc = [r \in Requests |-> "new"]

InitRest ==
  /\ res = [r \in Requests |-> FreshResponse]
  /\ hasTrace = [r \in Requests |-> FALSE]
  /\ layers = [r \in Requests |-> <<>>]
  /\ params = [r \in Requests |-> NoParams]
  /\ frames = [r \in Requests |-> <<>>]
  /\ cur = [r \in Requests |-> End]
  /\ seen = [r \in Requests |-> NotSeen]
  /\ asked = [r \in Requests |-> <<>>]
  /\ lastIndex = 0
  /\ called = NotCalled

Init == InitApp /\ InitRequests /\ InitRest

-----------------------------------------------------------------------------
(* Actions *)

config == <<app, optv, chk>>
request == <<method, path, accept, httpVersion>>

\* Layer.match(options): the Layers of the application are constructed,
\* the arguments of a call before the call itself
Construct(n) ==
  /\ n \in DOMAIN layer
  /\ layer[n] = NoLayer
  /\ \A k \in DOMAIN layer : k > n => layer[k] # NoLayer
  /\ layer' = [layer EXCEPT ![n] = NewLayer(optv[n])]
  /\ UNCHANGED <<config, request, called, lastIndex, asked, res, hasTrace, layers, params, frames, cur, pc, seen>>

Assembled == \A n \in DOMAIN layer : layer[n] # NoLayer

\* app.callback() receives request r: dispatch(0)
Receive(r) ==
  /\ pc[r] = "new"
  /\ Assembled
  /\ pc' = [pc EXCEPT ![r] = "call"]
  /\ cur' = [cur EXCEPT ![r] = After(0, 0)]
  /\ UNCHANGED <<config, request, called, lastIndex, asked, layer, res, hasTrace, layers, params, frames, seen>>

\* a Layer's callback finds a gate closed: skip()
LayerSkip(r) ==
  /\ pc[r] = "call" /\ KindOf(r) = "layer"
  /\ LET n == cur[r].n
         l == layer[n]
     IN \E c \in (IF l.conditional THEN BOOLEAN ELSE {TRUE}) :
          LET d == Decide(l, method[r], c, path[r], accept[r], lastIndex) IN
            /\ ~d.match /\ ~d.threw
            /\ layers' = [layers EXCEPT ![r] =
                            Append(@, SkipEntry(n, Len(@), d.params))]
            /\ hasTrace' = [hasTrace EXCEPT ![r] = TRUE]
            /\ cur' = [cur EXCEPT ![r] = NextOf(n)]
            /\ lastIndex' = d.lastIndex
            /\ asked' = [asked EXCEPT ![r] = d.asked]
  /\ UNCHANGED <<config, request, called, layer, res, params, frames, pc, seen>>

\* this.accept() throws in a Layer's callback: the request is rejected with
\* the TypeError, nothing is recorded for this invocation
LayerThrow(r) ==
  /\ pc[r] = "call" /\ KindOf(r) = "layer"
  /\ LET n == cur[r].n
         l == layer[n]
     IN \E c \in (IF l.conditional THEN BOOLEAN ELSE {TRUE}) :
          LET d == Decide(l, method[r], c, path[r], accept[r], lastIndex) IN
            /\ d.threw
            /\ hasTrace' = [hasTrace EXCEPT ![r] = TRUE]
            /\ lastIndex' = d.lastIndex
            /\ asked' = [asked EXCEPT ![r] = d.asked]
  /\ pc' = [pc EXCEPT ![r] = "raised"]
  /\ frames' = [frames EXCEPT ![r] = <<>>]
  /\ UNCHANGED <<config, request, called, layer, res, layers, params, cur, seen>>

\* a Layer's callback passes every gate: it records the match, merges the
\* parameters and runs compose(this.stack)
LayerMatch(r) ==
  /\ pc[r] = "call" /\ KindOf(r) = "layer"
  /\ LET n == cur[r].n
         l == layer[n]
     IN \E c \in (IF l.conditional THEN BOOLEAN ELSE {TRUE}) :
          LET d == Decide(l, method[r], c, path[r], accept[r], lastIndex)
              index == Len(layers[r])
          IN
            /\ d.match
            /\ lastIndex' = d.lastIndex
            /\ asked' = [asked EXCEPT ![r] = d.asked]
            /\ layers' = [layers EXCEPT ![r] =
                            Append(@, MatchEntry(n, index, d.params, d.accepted))]
            /\ hasTrace' = [hasTrace EXCEPT ![r] = TRUE]
            /\ params' = [params EXCEPT ![r] = Merge(@, d.params.m)]
            /\ frames' = [frames EXCEPT ![r] = Append(@, Frame(n, index))]
            /\ cur' = [cur EXCEPT ![r] = After(n, 0)]
  /\ UNCHANGED <<config, request, called, layer, res, pc, seen>>

\* "layer.length = layers.length - index": the entry itself and those pushed
\* after it. CountBeyond is the count without the entry itself, CountAll the
\* count of the whole trace.
CountAll(len, index) == len
CountBeyond(len, index) == len - index - 1
CountOwn(len, index) == len - index

\* the continuation a Layer gave to its stack is called: "Count subsequent
\* layers as own, and set done to true", then next()
WrapNext(r) ==
  /\ pc[r] = "call" /\ cur[r].t = "wrap"
  /\ LET n == cur[r].n
         f == CHOOSE f \in Range(frames[r]) : f.node = n
         len == Len(layers[r])
     IN /\ layers' = [layers EXCEPT ![r][f.index + 1] =
                        [@ EXCEPT !.length = CountOwn(len, f.index), !.done = TRUE]]
        /\ cur' = [cur EXCEPT ![r] = NextOf(n)]
  /\ UNCHANGED <<config, request, called, lastIndex, asked, layer, res, hasTrace, params, frames, pc, seen>>

\* a plain middleware runs: it may write the response, then calls next()
\* or returns
Handler(r) ==
  /\ pc[r] = "call" /\ KindOf(r) = "handler"
  /\ LET n == cur[r].n
         h == Tree(app)[n]
     IN \E e \in h.effect, nx \in h.next :
          /\ res' = [res EXCEPT ![r] =
                       ApplyEffect(@, e, IF e = "preferred" THEN Preferred(layers[r])
                                         ELSE h.text)]
          /\ IF nx
             THEN cur' = [cur EXCEPT ![r] = NextOf(n)] /\ pc' = pc
             ELSE cur' = cur /\ pc' = [pc EXCEPT ![r] = "ret"]
  /\ UNCHANGED <<config, request, called, lastIndex, asked, layer, hasTrace, layers, params, frames, seen>>

\* check() is entered: "await next()"
CheckCall(r) ==
  /\ pc[r] = "call" /\ KindOf(r) = "check"
  /\ frames' = [frames EXCEPT ![r] = Append(@, Frame(cur[r].n, -1))]
  /\ cur' = [cur EXCEPT ![r] = NextOf(cur[r].n)]
  /\ UNCHANGED <<config, request, called, lastIndex, asked, layer, res, hasTrace, layers, params, pc, seen>>

\* next() past the last middleware of the application resolves
EndOfStack(r) ==
  /\ pc[r] = "call" /\ cur[r].t = "end"
  /\ pc' = [pc EXCEPT ![r] = "ret"]
  /\ UNCHANGED <<config, request, called, lastIndex, asked, layer, res, hasTrace, layers, params, frames, cur, seen>>

TopFrame(r) == frames[r][Len(frames[r])]
Pop(q) == SubSeq(q, 1, Len(q) - 1)

\* `await compose(...)` returns in a Layer's callback: "Count remaining layers"
\* "Count remaining layers": the length is written at unwinding only if the
\* wrapped continuation did not write it. CountAgain writes it in any case.
CountAgain(e, len, index) == [e EXCEPT !.length = CountOwn(len, index)]

CountRemaining(e, len, index) ==
  IF e.length = -1 THEN [e EXCEPT !.length = CountOwn(len, index)] ELSE e

LayerReturn(r) ==
  /\ pc[r] = "ret" /\ frames[r] # <<>>
  /\ Tree(app)[TopFrame(r).node].kind = "layer"
  /\ LET f == TopFrame(r)
         len == Len(layers[r])
     IN layers' = [layers EXCEPT ![r][f.index + 1] = CountRemaining(@, len, f.index)]
  /\ frames' = [frames EXCEPT ![r] = Pop(@)]
  /\ UNCHANGED <<config, request, called, lastIndex, asked, layer, res, hasTrace, params, cur, pc, seen>>

\* `await next()` returns in check(): it inspects the trace and answers,
\* throws, or leaves the response alone
CheckReturn(r) ==
  /\ pc[r] = "ret" /\ frames[r] # <<>>
  /\ Tree(app)[TopFrame(r).node].kind = "check"
  /\ LET out == check(chk, method[r], res[r], hasTrace[r], layers[r]) IN
       /\ res' = [res EXCEPT ![r] = out.res]
       /\ seen' = [seen EXCEPT ![r] =
                     [n |-> @.n + 1, kind |-> out.kind, raised |-> out.raised,
                      at |-> out.at, before |-> res[r], after |-> out.res,
                      traced |-> hasTrace[r], trace |-> layers[r],
                      by |-> TopFrame(r).node]]
       /\ IF out.kind = "throw"
          THEN pc' = [pc EXCEPT ![r] = "raised"] /\ frames' = [frames EXCEPT ![r] = <<>>]
          ELSE pc' = pc /\ frames' = [frames EXCEPT ![r] = Pop(@)]
  /\ UNCHANGED <<config, request, called, lastIndex, asked, layer, hasTrace, layers, params, cur>>

\* every middleware has returned: the host sends the response
Respond(r) ==
  /\ pc[r] = "ret" /\ frames[r] = <<>>
  /\ pc' = [pc EXCEPT ![r] = "done"]
  /\ UNCHANGED <<config, request, called, lastIndex, asked, layer, res, hasTrace, layers, params, frames, cur, seen>>

\* one step of the middleware chain for request r
Step(r) ==
  \/ Receive(r)
  \/ LayerSkip(r)
  \/ LayerMatch(r)
  \/ LayerThrow(r)
  \/ WrapNext(r)
  \/ Handler(r)
  \/ CheckCall(r)
  \/ EndOfStack(r)
  \/ LayerReturn(r)
  \/ CheckReturn(r)
  \/ Respond(r)

Next ==
  \/ \E n \in DOMAIN layer : Construct(n)
  \/ \E r \in Requests : Step(r)

Spec == Init /\ [][Next]_vars

-----------------------------------------------------------------------------
(* accepts(header, provided) called on its own, call after call *)

\* no application is assembled and no request is in flight
Idle ==
  /\ app = 0 /\ optv = <<>> /\ chk = DefaultCheck /\ layer = <<>>
  /\ method = [r \in Requests |-> None]
  /\ path = [r \in Requests |-> None]
  /\ accept = [r \in Requests |-> None]
  /\ httpVersion = [r \in Requests |-> "1.1"]
  /\ pc = [r \in Requests |-> "idle"]
  /\ InitRest
idle == <<config, request, layer, res, hasTrace, layers, params, frames, cur, pc, seen, asked>>

\* the offered types: the `accepts` Set of a Layer, or any iterable of types
RankOffered ==
  {<<"application/json", "text/html">>, <<"text/html", "application/json">>,
   <<"text/plain", "text/html">>}

\* the headers of two media ranges and the header that is one malformed range
\* `text/html;q=0.5, text/html;q=0.5`: the same range listed twice
ListedTwice ==
  Header(<<MediaRange("text", "html", Q(5), <<>>), MediaRange("text", "html", Q(5), <<>>)>>)

\* `text/html;level=, application/json;q=0.3`: a parameter with an empty
\* value
EmptyValue ==
  Header(<<MediaRange("text", "html", None, << <<"level", "">> >>),
           MediaRange("application", "json", Q(3), <<>>)>>)

RankHeaders ==
  {h \in AcceptHeaders : h.t = "hdr" /\ (Len(h.h) = 2 \/ splitThrows(h.h[1].params))}
    \cup {ListedTwice, EmptyValue}

AcceptsCall(h, o, from) ==
  [op |-> "accepts", header |-> h, provided |-> o, from |-> from, out |-> accepts(h, o, from)]

InitRank == Idle

\* one call of accepts(h, o); `kept` remembers one of the earlier calls
Rank(h, o) ==
  /\ called' = [now |-> AcceptsCall(h, o, lastIndex),
                kept |-> called.kept]
  /\ lastIndex' = accepts(h, o, lastIndex).lastIndex
  /\ UNCHANGED idle

\* the caller keeps the outcome of the call just made, to compare it with
\* the outcome of a later call
Keep ==
  /\ called.now.op = "accepts" /\ called.kept # called.now
  /\ called' = [called EXCEPT !.kept = called.now]
  /\ UNCHANGED <<idle, lastIndex>>

NextRank ==
  \/ \E h \in RankHeaders, o \in RankOffered : Rank(h, o)
  \/ Keep

SpecRank == InitRank /\ [][NextRank]_vars

-----------------------------------------------------------------------------
(* Requests in flight together *)

\* requests 1 and 2 are processed together; before them the application is
\* run afresh with request Alone, which is request 1 once more
Together == {1, 2}
Alone == 3

TogetherHeaders ==
  {None,
   Header(<<MediaRange("text", "html", None, <<>>), MediaRange("application", "json", None, <<>>)>>),
   Header(<<MediaRange("text", "html", None, << <<"level">> >>)>>)}

Finished(r) == pc[r] \in {"done", "raised"}

InitTogether ==
  /\ app = 9 /\ optv = Options9 /\ chk = DefaultCheck
  /\ layer = [n \in DOMAIN optv |-> NoLayer]
  /\ \E h1, h2 \in TogetherHeaders :
       accept = [r \in Together \cup {Alone} |-> IF r = 2 THEN h2 ELSE h1]
  /\ method = [r \in Together \cup {Alone} |-> "GET"]
  /\ path = [r \in Together \cup {Alone} |-> Root]
  /\ pc = [r \in Together \cup {Alone} |-> IF r = Alone THEN "new" ELSE "wait"]
  /\ res = [r \in Together \cup {Alone} |-> FreshResponse]
  /\ hasTrace = [r \in Together \cup {Alone} |-> FALSE]
  /\ layers = [r \in Together \cup {Alone} |-> <<>>]
  /\ params = [r \in Together \cup {Alone} |-> NoParams]
  /\ frames = [r \in Together \cup {Alone} |-> <<>>]
  /\ cur = [r \in Together \cup {Alone} |-> End]
  /\ seen = [r \in Together \cup {Alone} |-> NotSeen]
  /\ asked = [r \in Together \cup {Alone} |-> <<>>]
  /\ httpVersion = [r \in Together \cup {Alone} |-> "1.1"]
  /\ lastIndex = 0
  /\ called = NotCalled

\* the process is started again (the module is loaded anew) and the two
\* requests arrive
Restart ==
  /\ Finished(Alone)
  /\ \A r \in Together : pc[r] = "wait"
  /\ pc' = [r \in DOMAIN pc |-> IF r \in Together THEN "new" ELSE pc[r]]
  /\ lastIndex' = 0
  /\ UNCHANGED <<config, request, called, asked, layer, res, hasTrace, layers, params,
                 frames, cur, seen>>

NextTogether ==
  \/ \E n \in DOMAIN layer : Construct(n)
  \/ \E r \in Together \cup {Alone} : Step(r)
  \/ Restart

SpecTogether == InitTogether /\ [][NextTogether]_vars

-----------------------------------------------------------------------------
(* A Layer built by hand: new Layer(options), then param() and use() calls *)

\* longest handler stack followed
MaxStack == 3

\* a function declaring `len` parameters, handed to use()
Handle(len) == [t |-> "fn", f |-> 20 + len, length |-> len]
\* the middleware param() makes: async(ctx, next), marked with the name
Setter(name) == [t |-> "fn", f |-> 30, length |-> 2, param |-> name]
\* handle.param, "" for `undefined`
ParamOf(h) == IF "param" \in DOMAIN h THEN h.param ELSE ""

\* keys.findIndex((k) => name === k.name), counting from 1; 0 for -1
FindKey(keys, name) ==
  IF \E i \in 1..Len(keys) : keys[i] = name
  THEN CHOOSE i \in 1..Len(keys) : keys[i] = name /\ \A j \in 1..(i - 1) : keys[j] # name
  ELSE 0

\* stack.splice(insert, 0, middleware), `insert` counting from 1
Splice(stack, insert, middleware) ==
  SubSeq(stack, 1, insert - 1) \o <<middleware>> \o SubSeq(stack, insert, Len(stack))

\* Layer.param(param, handler): the Layer afterwards, or the throw
Layer_param(l, param) ==
  IF param.t # "str" THEN [threw |-> TRUE, layer |-> l]
  ELSE LET index == FindKey(l.keys, param.v)
           before == {i \in 1..Len(l.stack) :
                        \/ ParamOf(l.stack[i]) = ""
                        \/ FindKey(l.keys, ParamOf(l.stack[i])) > index}
       IN IF index = 0 \/ before = {} THEN [threw |-> FALSE, layer |-> l]
          ELSE LET insert == CHOOSE i \in before : \A j \in before : i <= j IN
                 [threw |-> FALSE,
                  layer |-> [l EXCEPT !.stack = Splice(l.stack, insert, Setter(param.v))]]

\* "'function' === typeof handle && handle.length > 0 && handle.length < 3"
Usable(h) == h.t = "fn" /\ h.length > 0 /\ h.length < 3

\* Layer.use(...handles). UseFirst is the method as it was before it took
\* several handlers: use(handle).
UseFirst(l, handles) ==
  IF handles # <<>> /\ Usable(handles[1])
  THEN [l EXCEPT !.stack = Append(l.stack, handles[1])] ELSE l
Layer_use(l, handles) ==
  IF \A i \in 1..Len(handles) : Usable(handles[i])
  THEN [l EXCEPT !.stack = l.stack \o handles] ELSE l

\* the options, names and handlers tried
UsersIdX == PathStr(Pattern(FALSE, FALSE, <<Lit("users"), Key("id"), Key("x")>>))
BuildOptions ==
  {LayerOptions(p, None, None, None, None, h, hs, FALSE) :
     p \in {None, UsersIdX}, h \in {None, Other, Fn(2)},
     hs \in {None, Iter(<<Other, Fn(3)>>)}}
ParamChoices == {Str("id"), Str("x"), Str("nope"), Other}
UseChoices == SeqsUpTo({Handle(1), Handle(2), Handle(3), Other}, 2)

InitBuild ==
  /\ app = 0 /\ chk = DefaultCheck
  /\ optv \in {[n \in {1} |-> o] : o \in BuildOptions}
  /\ layer = [n \in {1} |-> NoLayer]
  /\ method = [r \in Requests |-> None]
  /\ path = [r \in Requests |-> None]
  /\ accept = [r \in Requests |-> None]
  /\ httpVersion = [r \in Requests |-> "1.1"]
  /\ pc = [r \in Requests |-> "idle"]
  /\ InitRest

\* layer.param(param, handler) on the constructed Layer n
Param(n, param) ==
  /\ n \in DOMAIN layer /\ layer[n] # NoLayer
  /\ Len(layer[n].stack) < MaxStack
  /\ LET out == Layer_param(layer[n], param) IN
       /\ layer' = [layer EXCEPT ![n] = out.layer]
       /\ called' = [called EXCEPT !.now =
                       [op |-> "param", param |-> param, before |-> layer[n],
                        threw |-> out.threw]]
  /\ UNCHANGED <<config, request, lastIndex, asked, res, hasTrace, layers, params, frames, cur,
                 pc, seen>>

\* layer.use(...handles) on the constructed Layer n
Use(n, handles) ==
  /\ n \in DOMAIN layer /\ layer[n] # NoLayer
  /\ Len(layer[n].stack) + Len(handles) <= MaxStack
  /\ layer' = [layer EXCEPT ![n] = Layer_use(layer[n], handles)]
  /\ called' = [called EXCEPT !.now =
                  [op |-> "use", handles |-> handles, before |-> layer[n], threw |-> FALSE]]
  /\ UNCHANGED <<config, request, lastIndex, asked, res, hasTrace, layers, params, frames, cur,
                 pc, seen>>

NextBuild ==
  \/ \E n \in DOMAIN layer : Construct(n)
  \/ \E n \in DOMAIN layer, param \in ParamChoices : Param(n, param)
  \/ \E n \in DOMAIN layer, handles \in UseChoices : Use(n, handles)

SpecBuild == InitBuild /\ [][NextBuild]_vars

-----------------------------------------------------------------------------
(* Properties of check() *)

\* The method union M of a trace: OPTIONS and the methods of every recorded
\* Layer, or the default list when that leaves OPTIONS alone
MethodUnion(ls) ==
  LET U == {"OPTIONS"} \cup UNION {Range(layer[ls[i].layer].methods) : i \in 1..Len(ls)}
  IN IF U = {"OPTIONS"} THEN Range(default_methods) ELSE U

\* check() has inspected the trace of request r: a trace was there, the
\* response was not sent and its status was the unhandled one
Inspected(r) ==
  /\ seen[r].n > 0
  /\ seen[r].traced
  /\ ~seen[r].before.headerSent
  /\ seen[r].before.status = Unhandled

\* an entry of the trace made check() find a 501
Triggers501(r) == seen[r].at # 0

\* the Allow header of rs lists exactly the methods of S, each once
AllowIs(rs, S) ==
  /\ rs.allow # None
  /\ Range(rs.allow.l) = S
  /\ Len(rs.allow.l) = Cardinality(S)

\* check() is configured to raise a MethodNotAllowed / a NotImplemented
\* instead of writing the response
Raises405 == chk.throw \/ chk.methodNotAllowd # "unset"
Raises501 == chk.throw \/ chk.notImplemented # "unset"

\* C1: for a request whose method is not OPTIONS, whose trace check() has
\* inspected and in which no entry triggers 501, check() writes 405 with
\* Allow = M exactly when the method is not in M (it raises instead of writing
\* when configured to), and leaves the response as it was otherwise; M is
\* OPTIONS with the methods of every recorded Layer, or the default list when
\* that is OPTIONS alone.
C1_MethodNotAllowed ==
  \A r \in Requests :
    (Inspected(r) /\ method[r] # "OPTIONS" /\ ~Triggers501(r)) =>
      LET M == MethodUnion(seen[r].trace) IN
        IF method[r] \notin M
        THEN IF Raises405
             THEN seen[r].kind = "throw" /\ seen[r].after = seen[r].before
             ELSE /\ seen[r].after.status = 405
                  /\ seen[r].after.body = None
                  /\ AllowIs(seen[r].after, M)
        ELSE seen[r].after = seen[r].before

\* a PATCH request to the first test application is answered 405 after
\* Layers were recorded that did not match
C1_Witness ==
  /\ app = 1 /\ pc[1] = "done" /\ method[1] = "PATCH"
  /\ Inspected(1) /\ ~Triggers501(1)
  /\ res[1].status = 405
  /\ \E i \in 1..Len(layers[1]) : ~Matched(layers[1][i])
  /\ Range(res[1].allow.l) = {"OPTIONS", "DELETE", "GET", "HEAD", "PUT", "POST"}

\* C2 as stated: every OPTIONS request whose trace check() has inspected is
\* answered 200 with an empty body and Allow = M.
C2_OptionsAlways ==
  \A r \in Requests :
    (Inspected(r) /\ method[r] = "OPTIONS") =>
      /\ seen[r].after.status = 200
      /\ seen[r].after.body = Str("")
      /\ AllowIs(seen[r].after, MethodUnion(seen[r].trace))

\* C2: every OPTIONS request whose trace check() has inspected and in which
\* no entry triggers 501 is answered 200 with an empty body and Allow = M, and
\* never with 405 or a raised MethodNotAllowed.
C2_Options ==
  \A r \in Requests :
    (Inspected(r) /\ method[r] = "OPTIONS" /\ ~Triggers501(r)) =>
      /\ seen[r].kind = "200"
      /\ seen[r].after.status = 200
      /\ seen[r].after.body = Str("")
      /\ AllowIs(seen[r].after, MethodUnion(seen[r].trace))

\* an OPTIONS request to the first test application is answered 200 with
\* the methods of its Layers, HEAD among them
C2_Witness ==
  /\ app = 1 /\ pc[1] = "done" /\ method[1] = "OPTIONS"
  /\ Inspected(1) /\ ~Triggers501(1)
  /\ res[1].status = 200 /\ res[1].body = Str("")
  /\ "HEAD" \in Range(res[1].allow.l) /\ "DELETE" \in Range(res[1].allow.l)

\* an entry of a Layer that matched, whose stack returned without calling
\* the continuation and below which no other Layer was recorded
DeadEnd(e) == Matched(e) /\ ~e.done /\ e.length = 1

FirstDeadEnd(ls) ==
  CHOOSE i \in 1..Len(ls) : DeadEnd(ls[i]) /\ \A j \in 1..(i - 1) : ~DeadEnd(ls[j])

\* the methods gathered from the first k entries of a trace, as a set
Gathered(ls, k) == MethodUnion(SubSeq(ls, 1, k))

\* C3: when check() inspects the still unhandled response of a request whose
\* trace holds a Layer that matched, returned without calling its
\* continuation and had no Layer run below it, it answers 501 with Allow = the
\* methods gathered from the trace up to that Layer, the default list when
\* that is OPTIONS alone (it raises NotImplemented instead when configured
\* to); and a response that is sent, or whose status is no longer the
\* unhandled one, is never turned into a 501.
C3_NotImplemented ==
  \A r \in Requests :
    /\ (Inspected(r) /\ \E i \in 1..Len(seen[r].trace) : DeadEnd(seen[r].trace[i])) =>
         IF Raises501
         THEN seen[r].kind = "throw" /\ seen[r].after = seen[r].before
         ELSE /\ seen[r].kind = "501"
              /\ seen[r].after.status = 501
              /\ seen[r].after.body = None
              /\ AllowIs(seen[r].after,
                         Gathered(seen[r].trace, FirstDeadEnd(seen[r].trace)))
    /\ (seen[r].n > 0 /\ (seen[r].before.status # Unhandled \/ seen[r].before.headerSent)) =>
         /\ seen[r].kind # "501"
         /\ seen[r].after = seen[r].before

\* POST /123 reaches a Layer with only a handler that does nothing: 501 with
\* the default list
C3_Witness ==
  /\ app = 4 /\ pc[1] = "done" /\ method[1] = "POST"
  /\ DeadEnd(layers[1][1])
  /\ res[1].status = 501 /\ res[1].body = None
  /\ res[1].allow = List(default_methods)

C5_MissUntouched ==
  \A r \in Requests :
    (/\ seen[r].n > 0
     /\ \A i \in 1..Len(seen[r].trace) : ~Matched(seen[r].trace[i])
     /\ method[r] \in MethodUnion(seen[r].trace)) =>
      /\ seen[r].kind \notin {"501", "405", "throw"}
      /\ seen[r].after = seen[r].before

\* C5: when no entry of the trace is a match, the method is in M and is not
\* OPTIONS, check() leaves the response as it was and writes neither 501 nor
\* 405.
C5_Miss ==
  \A r \in Requests :
    (/\ seen[r].n > 0
     /\ \A i \in 1..Len(seen[r].trace) : ~Matched(seen[r].trace[i])
     /\ method[r] \in MethodUnion(seen[r].trace)
     /\ method[r] # "OPTIONS") =>
      /\ seen[r].kind \notin {"501", "405", "throw"}
      /\ seen[r].after = seen[r].before

\* GET to the third test application with its conditional refusing: both
\* Layers are recorded as misses and the 404 stands
C5_Witness ==
  /\ app = 3 /\ pc[1] = "done" /\ method[1] = "GET"
  /\ Inspected(1) /\ Len(seen[1].trace) = 2
  /\ \A i \in 1..Len(seen[1].trace) : ~Matched(seen[1].trace[i])
  /\ seen[1].kind = "pass"
  /\ res[1] = FreshResponse

-----------------------------------------------------------------------------
(* Properties of a Layer *)

Built(n) == n \in DOMAIN layer /\ layer[n] # NoLayer

\* C6: whatever `method` and `methods` a Layer is constructed with, if its
\* methods contain GET they contain HEAD, and a Layer whose method gate lets
\* GET pass lets HEAD pass.
C6_HeadWithGet ==
  \A n \in DOMAIN layer :
    Built(n) =>
      /\ "GET" \in Range(layer[n].methods) => "HEAD" \in Range(layer[n].methods)
      /\ MethodGate(layer[n], "GET") => MethodGate(layer[n], "HEAD")

\* a Layer constructed with method 'Get' alone holds GET and HEAD and has
\* matched a HEAD request
C6_Witness ==
  /\ app = 5 /\ Built(2)
  /\ optv[2].method = Str("Get") /\ optv[2].methods = None
  /\ layer[2].methods = <<"GET", "HEAD">>
  /\ method[1] = "HEAD"
  /\ Len(layers[1]) = 1 /\ Matched(layers[1][1])

\* a Layer whose only gate is the method gate
OnlyMethodGate(l) == ~l.conditional /\ ~l.hasPath /\ l.accepts = <<>>

\* the gate with the request method upper-cased
MethodUpperCased(l, m) == l.methods = <<>> \/ toUpperCase(m) \in Range(l.methods)

\* C7: a Layer accepts a request method iff its methods are empty or contain
\* the upper-cased request method: a Layer with no other gate matches exactly
\* the requests whose upper-cased method it holds.
C7_CaseInsensitive ==
  \A r \in Requests : \A i \in 1..Len(layers[r]) :
    LET e == layers[r][i]
        l == layer[e.layer]
    IN OnlyMethodGate(l) => (Matched(e) <=> MethodUpperCased(l, method[r]))

\* C8: a Layer with accepted types whose negotiation against a present Accept
\* header yields no type records a miss.
C8_RejectsEmptyNegotiation ==
  \A r \in Requests : \A i \in 1..Len(layers[r]) :
    LET e == layers[r][i]
        l == layer[e.layer]
    IN (l.accepts # <<>> /\ accept[r] # None /\ accepts(accept[r], l.accepts, 0).value = Arr(<<>>))
         => ~Matched(e)

\* C9: a Layer constructed without accepted types decides the same for every
\* Accept header, the absent one included, and a match of it records an empty
\* negotiation result.
C9_NotOpinionated ==
  /\ \A n \in DOMAIN layer :
       (Built(n) /\ layer[n].accepts = <<>>) =>
         \A r \in Requests, c \in BOOLEAN, h \in AcceptHeaders :
           Decide(layer[n], method[r], c, path[r], h, lastIndex)
             = Decide(layer[n], method[r], c, path[r], None, lastIndex)
  /\ \A r \in Requests : \A i \in 1..Len(layers[r]) :
       LET e == layers[r][i] IN
         (Matched(e) /\ layer[e.layer].accepts = <<>>) => e.accepted = Arr(<<>>)

\* a Layer whose only accept option names no known type has matched a request
\* that carries an Accept header
C9_Witness ==
  /\ app = 6 /\ Built(2)
  /\ optv[2].accept = Str("nope") /\ optv[2].accepts = None
  /\ layer[2].accepts = <<>>
  /\ accept[1] # None
  /\ Len(layers[1]) >= 1 /\ layers[1][1].layer = 2
  /\ Matched(layers[1][1]) /\ layers[1][1].accepted = Arr(<<>>)

\* the names a parameter map binds and the value it binds last to a name
Binds(map, k) == \E i \in 1..Len(map) : map[i][1] = k
LastValue(map, k) ==
  map[CHOOSE i \in 1..Len(map) :
        map[i][1] = k /\ \A j \in (i + 1)..Len(map) : map[j][1] # k][2]

\* C10: the invocation of a Layer that matches writes every extracted
\* parameter under its name over whatever was there, and leaves the other
\* names alone; an invocation that does not match leaves every parameter as
\* it was.
C10_LastWins ==
  [][\A r \in Requests :
       Len(layers'[r]) = Len(layers[r]) + 1 =>
         LET e == layers'[r][Len(layers'[r])] IN
           IF Matched(e)
           THEN \A k \in ParamKeys :
                  params'[r][k] = IF Binds(e.params.m, k)
                                  THEN LastValue(e.params.m, k)
                                  ELSE params[r][k]
           ELSE params'[r] = params[r]]_vars

\* two Layers matched /users/42 and bound `id` to different values; the
\* later one's value is the one held
C10_Witness ==
  /\ app = 7
  /\ \E i, j \in 1..Len(layers[1]) :
       /\ i < j /\ j = Len(layers[1])
       /\ Matched(layers[1][i]) /\ Matched(layers[1][j])
       /\ Binds(layers[1][i].params.m, "id") /\ Binds(layers[1][j].params.m, "id")
       /\ LastValue(layers[1][i].params.m, "id") # LastValue(layers[1][j].params.m, "id")
       /\ params[1]["id"] = LastValue(layers[1][j].params.m, "id")

-----------------------------------------------------------------------------
(* Properties of the negotiation *)

\* the last call of accepts() returned, and what it returned
RankReturned == called.now.op = "accepts" /\ ~called.now.out.threw
Ranked == called.now.out.value.a
FullTypes(q) == [i \in 1..Len(q) |-> q[i].full_type]

\* the returned items are offered types, each at most once
Survivors ==
  /\ \A i \in 1..Len(Ranked) : Ranked[i].full_type = called.now.provided[Ranked[i].index + 1]
  /\ \A i, j \in 1..Len(Ranked) : Ranked[i].index = Ranked[j].index => i = j

\* a may stand before b: by quality, then by flags, then by offered order
ByOfferedOrder(a, b) ==
  \/ a.quality > b.quality
  \/ a.quality = b.quality /\ a.flags > b.flags
  \/ a.quality = b.quality /\ a.flags = b.flags /\ a.index <= b.index

\* a may stand before b: by quality, then by flags, then by the position in
\* the header of the range that gave the quality, then by offered order
ByHeaderThenOfferedOrder(a, b) ==
  \/ a.quality > b.quality
  \/ a.quality = b.quality /\ a.flags > b.flags
  \/ a.quality = b.quality /\ a.flags = b.flags /\ a.other_index < b.other_index
  \/ a.quality = b.quality /\ a.flags = b.flags /\ a.other_index = b.other_index
       /\ a.index <= b.index

\* `Accept: text/html;q=0.8, application/json`
HtmlThenJson ==
  Header(<<MediaRange("text", "html", Q(8), <<>>), MediaRange("application", "json", None, <<>>)>>)
JsonBeforeHtml ==
  (called.now.header = HtmlThenJson
     /\ {"application/json", "text/html"} \subseteq Range(FullTypes(Ranked)))
    => \E i, j \in 1..Len(Ranked) :
         i < j /\ Ranked[i].full_type = "application/json" /\ Ranked[j].full_type = "text/html"

SpecMatches(mr, full) ==
  /\ mr.type = "*" \/ toLowerCase(mr.type) = toLowerCase(TypeOf(full))
  /\ mr.sub_type = "*" \/ toLowerCase(mr.sub_type) = toLowerCase(SubTypeOf(full))
  /\ \A i \in 1..Len(mr.params) : mr.params[i][2] = "*"

\* how much of the offered type the accept-spec names
Specificity(mr) ==
  (IF mr.type # "*" THEN 1 ELSE 0) + (IF mr.sub_type # "*" THEN 1 ELSE 0)
    + (IF mr.params # <<>> THEN 1 ELSE 0)

QualityOf(mr) == IF mr.q.t = "num" THEN mr.q.n ELSE FullQuality

\* the most specific of the accept-specs of the header that match `full`
MostSpecific(h, full) ==
  LET ms == {i \in 1..Len(h.h) : SpecMatches(h.h[i], full)} IN
    {i \in ms : \A j \in ms : Specificity(h.h[j]) <= Specificity(h.h[i])}

\* the effective quality of an offered type: 0 when no accept-spec matches
EffectiveQuality(h, full) ==
  LET best == MostSpecific(h, full) IN
    IF best = {} THEN 0
    ELSE QualityOf(h.h[CHOOSE i \in best : \A j \in best : QualityOf(h.h[j]) <= QualityOf(h.h[i])])

\* C12: accepts(), called with a fresh header regex, returns exactly the
\* offered types whose effective quality is greater than 0: a type matched by
\* no accept-spec, or whose most specific matching accept-spec has q=0, is
\* left out even when a less specific accept-spec with q>0 matches it.
C12_ExactlyPositive ==
  (RankReturned /\ called.now.from = 0) =>
    \A i \in 1..Len(called.now.provided) :
      LET full == called.now.provided[i] IN
        (full \in Range(FullTypes(Ranked))) <=> (EffectiveQuality(called.now.header, full) > 0)

\* what a call of accepts() gave its caller: the types in order, or the throw
Outcome(c) == IF c.out.threw THEN <<"threw">> ELSE <<"returned", FullTypes(c.out.value.a)>>

\* C13: two calls of accepts() with the same header and the same offered
\* types give the same outcome, whatever calls were made between them.
C13_SameArgumentsSameResult ==
  (called.now.op = "accepts" /\ called.kept.op = "accepts"
     /\ called.now.header = called.kept.header
     /\ called.now.provided = called.kept.provided)
    => Outcome(called.now) = Outcome(called.kept)

-----------------------------------------------------------------------------
(* Properties of a Layer built by hand *)

\* the `handler` or `handlers` option holds something that is not a function
NonCallable(o) ==
  \/ o.handler.t \notin {"none", "fn"}
  \/ o.handlers.t \notin {"none", "fn", "iter"}
  \/ o.handlers.t = "iter" /\ \E i \in 1..Len(o.handlers.q) : o.handlers.q[i].t # "fn"

\* C14: options whose handler or handlers hold a non-callable entry never
\* yield a Layer: the constructor throws.
C14_RejectsNonCallable ==
  \A n \in DOMAIN layer :
    (NonCallable(optv[n]) /\ layer[n] # NoLayer) => layer[n].threw

\* the last call was param() with a string that names no key of the pattern
UnknownParam ==
  /\ called.now.op = "param" /\ called.now.param.t = "str"
  /\ called.now.param.v \notin Range(called.now.before.keys)

\* C15: param(name, handler) with a name that is no named slot of the Layer's
\* pattern throws, and leaves the handler stack as it was.
C15_UnknownParamThrows ==
  UnknownParam => (called.now.threw /\ layer[1].stack = called.now.before.stack)

\* the parameter middlewares of a stack, as positions
Setters(stack) == {i \in 1..Len(stack) : ParamOf(stack[i]) # ""}
\* parameter middlewares stand before every other handler, in slot order
SettersFirst(l) ==
  \A i, j \in 1..Len(l.stack) :
    (i < j /\ j \in Setters(l.stack)) =>
      /\ i \in Setters(l.stack)
      /\ FindKey(l.keys, ParamOf(l.stack[i])) <= FindKey(l.keys, ParamOf(l.stack[j]))

\* C16: after param(name, h) with a name that is a named slot of the pattern,
\* the stack holds a parameter middleware for that name, also when the Layer
\* had no handlers; and at all times the parameter middlewares stand before
\* every other handler, in the order of their slots.
C16_ParamInstalled ==
  /\ \A n \in DOMAIN layer : layer[n] # NoLayer => SettersFirst(layer[n])
  /\ (called.now.op = "param" /\ called.now.param.t = "str"
        /\ called.now.param.v \in Range(called.now.before.keys))
       => \E i \in 1..Len(layer[1].stack) : ParamOf(layer[1].stack[i]) = called.now.param.v

\* every handle is a function declaring one or two parameters
AllUsable(handles) ==
  \A i \in 1..Len(handles) : handles[i].t = "fn" /\ handles[i].length \in {1, 2}

\* C17: use(h1, ..., hn) appends h1..hn in order after the existing entries
\* when every hi is a function declaring 1 or 2 parameters, and otherwise
\* leaves the stack as it was; it throws nothing and the Layer is otherwise
\* the same.
C17_UseAppends ==
  called.now.op = "use" =>
    /\ ~called.now.threw
    /\ layer[1] = [called.now.before EXCEPT !.stack =
                     IF AllUsable(called.now.handles) THEN @ \o called.now.handles ELSE @]

\* use() appended two handlers to a stack that held one already
C17_Witness ==
  /\ called.now.op = "use" /\ Len(called.now.handles) = 2
  /\ Len(called.now.before.stack) = 1 /\ Len(layer[1].stack) = 3

-----------------------------------------------------------------------------
(* Properties of check(): throwing, and the Allow header *)

\* check() looked at the trace of request r while the status was still the
\* unhandled one
Unanswered(r) == seen[r].n > 0 /\ seen[r].traced /\ seen[r].before.status = Unhandled

\* the 501 condition and the 405 condition of the trace check() looked at
Condition501(r) == \E i \in 1..Len(seen[r].trace) : DeadEnd(seen[r].trace[i])
Condition405(r) ==
  /\ ~Condition501(r)
  /\ method[r] # "OPTIONS"
  /\ method[r] \notin MethodUnion(seen[r].trace)

\* what is thrown for an option that is unset, true, or a factory
SignalFor(named, standard) == IF named = "factory" THEN "custom" ELSE standard

\* C18: with the `throw` option, check() throws on every 501 condition and on
\* every 405 condition: the standard NotImplemented / MethodNotAllowed, or what
\* the configured factory returns; it then writes no status, no body and no
\* Allow header, and it never writes a 501 or a 405.
C18_ThrowsInsteadOfWriting ==
  \A r \in Requests :
    (chk.throw /\ Unanswered(r)) =>
      /\ Condition501(r) =>
           /\ seen[r].kind = "throw"
           /\ seen[r].raised = SignalFor(chk.notImplemented, "NotImplemented")
      /\ Condition405(r) =>
           /\ seen[r].kind = "throw"
           /\ seen[r].raised = SignalFor(chk.methodNotAllowd, "MethodNotAllowed")
      /\ seen[r].kind \notin {"501", "405"}
      /\ seen[r].kind = "throw" =>
           /\ seen[r].after = seen[r].before
           /\ res[r] = seen[r].before
           /\ pc[r] = "raised"

\* check({throw: true}) threw the standard MethodNotAllowed for a request
\* whose method no recorded Layer declares
C18_Witness ==
  /\ chk = CheckOptions(TRUE, "unset", "unset")
  /\ Unanswered(1) /\ Condition405(1)
  /\ pc[1] = "raised" /\ seen[1].raised = "MethodNotAllowed"
  /\ res[1].status = Unhandled /\ res[1].allow = None

\* the methods of the Layers of the first k entries of a trace, entry after
\* entry, each Layer's in the order its constructor collected them
RECURSIVE MethodsAlong(_, _)
MethodsAlong(ls, k) ==
  IF k = 0 THEN <<>> ELSE MethodsAlong(ls, k - 1) \o layer[ls[k].layer].methods

\* the first occurrences of q, in order
RECURSIVE FirstOccurrences(_)
FirstOccurrences(q) ==
  IF q = <<>> THEN <<>>
  ELSE LET front == FirstOccurrences(SubSeq(q, 1, Len(q) - 1)) IN
         IF q[Len(q)] \in Range(front) THEN front ELSE Append(front, q[Len(q)])

\* discovery order: OPTIONS, then the methods as first met; the default list
\* when nothing but OPTIONS was met
Discovered(ls, k) ==
  LET found == FirstOccurrences(<<"OPTIONS">> \o MethodsAlong(ls, k)) IN
    IF found = <<"OPTIONS">> THEN default_methods ELSE found

\* C19: the Allow header check() writes is a function of the trace it looked
\* at: OPTIONS first, then every method at the place of its first occurrence
\* along the trace (up to the entry that triggers a 501), each Layer's methods
\* in the order they were collected at construction; the default list in its
\* fixed order when no Layer declared a method. It writes no Allow header
\* when it does not answer.
C19_AllowInDiscoveryOrder ==
  \A r \in Requests :
    LET answers == seen[r].kind \in {"200", "405", "501"} /\ ~seen[r].before.headerSent IN
      /\ (answers /\ seen[r].kind # "501") =>
           seen[r].after.allow = List(Discovered(seen[r].trace, Len(seen[r].trace)))
      /\ (answers /\ seen[r].kind = "501") =>
           seen[r].after.allow = List(Discovered(seen[r].trace, seen[r].at))
      /\ (seen[r].n > 0 /\ ~answers) => seen[r].after.allow = seen[r].before.allow

\* OPTIONS on the third test application: the header lists the methods in the
\* order the Layers were met, HEAD where the Layer with GET put it
C19_Witness ==
  /\ app = 3 /\ method[1] = "OPTIONS" /\ pc[1] = "done"
  /\ res[1].allow = List(<<"OPTIONS", "POST", "PUT", "DELETE", "GET", "HEAD">>)

-----------------------------------------------------------------------------
(* Properties of requests in flight together *)

\* C20: a request processed while another is in flight ends as it ends when
\* processed alone: the same trace, the same parameters, the same response;
\* and no request changes a constructed Layer.
C20_AsAlone ==
  /\ (Finished(1) /\ Finished(Alone)) =>
       /\ pc[1] = pc[Alone]
       /\ layers[1] = layers[Alone]
       /\ params[1] = params[Alone]
       /\ res[1] = res[Alone]
  /\ \A n \in DOMAIN layer : layer[n] \in {NoLayer, NewLayer(optv[n])}

-----------------------------------------------------------------------------
(* The release before check(): src/src/index.ts, with method_not_allowed *)

\* the entry pushed by skip(params): `match` in place of `done`
SkipEntryPrior(n, index, ps) ==
  [layer |-> n, index |-> index, length |-> 0, match |-> FALSE,
   accepted |-> None, params |-> ps]

\* the entry pushed by a matching Layer
MatchEntryPrior(n, index, ps, ac) ==
  [layer |-> n, index |-> index, length |-> -1, match |-> TRUE,
   accepted |-> ac, params |-> ps]

head_or_get == {"HEAD", "GET"}

\* `ctx.body` used as a condition: undefined and '' are falsy. SetAtAll is
\* the test for a body that was set, whatever it holds.
SetAtAll(b) == b # None
Truthy(b) == b # None /\ b # Str("")

\* "if (ctx.headerSent || ctx.body || ctx.status !== 404 ||
\* head_or_get.has(ctx.method)) return"
SettledPrior(rs, m) ==
  rs.headerSent \/ Truthy(rs.body) \/ rs.status # Unhandled \/ m \in head_or_get

\* "Skip child layers of all except the tailing layers."
SkipAfterPrior(e, len) ==
  IF e.length > 0 /\ e.index + e.length < len THEN e.length ELSE 0

\* The loop of method_not_allowed over the trace: at is the position of the
\* entry whose Layer does not accept the method, or 0 when all are allowed;
\* top lists the positions not skipped.
RECURSIVE WalkPrior(_, _, _, _, _)
WalkPrior(ls, i, m, skip, top) ==
  IF i > Len(ls) THEN [at |-> 0, top |-> top]
  ELSE IF skip > 0 THEN WalkPrior(ls, i + 1, m, skip - 1, top)
  ELSE IF ~MethodGate(layer[ls[i].layer], m) THEN [at |-> i, top |-> Append(top, i)]
  ELSE WalkPrior(ls, i + 1, m, SkipAfterPrior(ls[i], Len(ls)), Append(top, i))

\* "Method '${ctx.method}' not allowed."
NotAllowedBody(m) == [t |-> "str", v |-> "Method '' not allowed.", of |-> m]

\* The code of method_not_allowed after `await next()`, for request method
\* m, HTTP version v, response rs and trace ls. Without a trace the loop
\* over ctx.state.layers throws a TypeError.
method_not_allowed(m, v, rs, traced, ls) ==
  IF SettledPrior(rs, m)
  THEN [kind |-> "return", res |-> rs, raised |-> "", at |-> 0]
  ELSE IF ~traced
  THEN [kind |-> "throw", res |-> rs, raised |-> "TypeError", at |-> 0]
  ELSE LET w == WalkPrior(ls, 1, m, 0, <<>>) IN
    IF w.at = 0 THEN [kind |-> "pass", res |-> rs, raised |-> "", at |-> 0]
    ELSE [kind |-> IF v = "1.0" THEN "400" ELSE "405",
          res |-> [rs EXCEPT !.status = IF v = "1.0" THEN 400 ELSE 405,
                             !.explicit = TRUE,
                             !.body = NotAllowedBody(m)],
          raised |-> "", at |-> w.at]

PriorApps == {10, 11, 12}
PriorMethods == {"GET", "HEAD", "POST", "PUT", "DELETE"}
PriorPaths(a) == IF a = 10 THEN Paths10 ELSE {Root}
HttpVersions == {"1.0", "1.1"}

InitPrior ==
  /\ app \in PriorApps
  /\ optv \in OptionChoices(app)
  /\ chk = DefaultCheck
  /\ layer = [n \in DOMAIN optv |-> NoLayer]
  /\ \E m \in PriorMethods, p \in PriorPaths(app), v \in HttpVersions :
       /\ method = [r \in Requests |-> m]
       /\ path = [r \in Requests |-> p]
       /\ httpVersion = [r \in Requests |-> v]
  /\ accept = [r \in Requests |-> None]
  /\ pc = [r \in Requests |-> "new"]
  /\ InitRest

\* a Layer's callback finds a gate closed: skip()
LayerSkipPrior(r) ==
  /\ pc[r] = "call" /\ KindOf(r) = "layer"
  /\ LET n == cur[r].n
         l == layer[n]
     IN \E c \in (IF l.conditional THEN BOOLEAN ELSE {TRUE}) :
          \E d \in {Decide(l, method[r], c, path[r], accept[r], lastIndex)} :
            /\ ~d.match /\ ~d.threw
            /\ layers' = [layers EXCEPT ![r] =
                            Append(@, SkipEntryPrior(n, Len(@), d.params))]
            /\ hasTrace' = [hasTrace EXCEPT ![r] = TRUE]
            /\ cur' = [cur EXCEPT ![r] = NextOf(n)]
            /\ lastIndex' = d.lastIndex
            /\ asked' = [asked EXCEPT ![r] = d.asked]
  /\ UNCHANGED <<config, request, called, layer, res, params, frames, pc, seen>>

\* a Layer's callback passes every gate
LayerMatchPrior(r) ==
  /\ pc[r] = "call" /\ KindOf(r) = "layer"
  /\ LET n == cur[r].n
         l == layer[n]
         index == Len(layers[r])
     IN \E c \in (IF l.conditional THEN BOOLEAN ELSE {TRUE}) :
          \E d \in {Decide(l, method[r], c, path[r], accept[r], lastIndex)} :
            /\ d.match
            /\ lastIndex' = d.lastIndex
            /\ asked' = [asked EXCEPT ![r] = d.asked]
            /\ layers' = [layers EXCEPT ![r] =
                            Append(@, MatchEntryPrior(n, index, d.params, d.accepted))]
            /\ hasTrace' = [hasTrace EXCEPT ![r] = TRUE]
            /\ params' = [params EXCEPT ![r] = Merge(@, d.params.m)]
            /\ frames' = [frames EXCEPT ![r] = Append(@, Frame(n, index))]
            /\ cur' = [cur EXCEPT ![r] = After(n, 0)]
  /\ UNCHANGED <<config, request, called, layer, res, pc, seen>>

\* the continuation a Layer gave to its stack is called:
\* "layers[index].length = layers.length - index - 1", then next()
WrapNextPrior(r) ==
  /\ pc[r] = "call" /\ cur[r].t = "wrap"
  /\ LET n == cur[r].n
         f == CHOOSE f \in Range(frames[r]) : f.node = n
         len == Len(layers[r])
     IN /\ layers' = [layers EXCEPT ![r][f.index + 1] =
                        [@ EXCEPT !.length = len - f.index - 1]]
        /\ cur' = [cur EXCEPT ![r] = NextOf(n)]
  /\ UNCHANGED <<config, request, called, lastIndex, asked, layer, res, hasTrace, params, frames, pc, seen>>

\* "return compose(this.stack)(...)": the callback resolves when its stack
\* does, and writes nothing more
LayerReturnPrior(r) ==
  /\ pc[r] = "ret" /\ frames[r] # <<>>
  /\ Tree(app)[TopFrame(r).node].kind = "layer"
  /\ frames' = [frames EXCEPT ![r] = Pop(@)]
  /\ UNCHANGED <<config, request, called, lastIndex, asked, layer, res, hasTrace, layers, params, cur, pc, seen>>

\* method_not_allowed is entered: "await next()"
MethodNotAllowedCall(r) ==
  /\ pc[r] = "call" /\ KindOf(r) = "mna"
  /\ frames' = [frames EXCEPT ![r] = Append(@, Frame(cur[r].n, -1))]
  /\ cur' = [cur EXCEPT ![r] = NextOf(cur[r].n)]
  /\ UNCHANGED <<config, request, called, lastIndex, asked, layer, res, hasTrace, layers, params, pc, seen>>

\* `await next()` returns in method_not_allowed
MethodNotAllowedReturn(r) ==
  /\ pc[r] = "ret" /\ frames[r] # <<>>
  /\ Tree(app)[TopFrame(r).node].kind = "mna"
  /\ \E out \in {method_not_allowed(method[r], httpVersion[r], res[r], hasTrace[r],
                                    layers[r])} :
       /\ res' = [res EXCEPT ![r] = out.res]
       /\ seen' = [seen EXCEPT ![r] =
                     [n |-> @.n + 1, kind |-> out.kind, raised |-> out.raised,
                      at |-> out.at, before |-> res[r], after |-> out.res,
                      traced |-> hasTrace[r], trace |-> layers[r],
                      by |-> TopFrame(r).node]]
       /\ IF out.kind = "throw"
          THEN pc' = [pc EXCEPT ![r] = "raised"] /\ frames' = [frames EXCEPT ![r] = <<>>]
          ELSE pc' = pc /\ frames' = [frames EXCEPT ![r] = Pop(@)]
  /\ UNCHANGED <<config, request, called, lastIndex, asked, layer, hasTrace, layers, params, cur>>

StepPrior(r) ==
  \/ Receive(r)
  \/ LayerSkipPrior(r)
  \/ LayerMatchPrior(r)
  \/ WrapNextPrior(r)
  \/ Handler(r)
  \/ MethodNotAllowedCall(r)
  \/ EndOfStack(r)
  \/ LayerReturnPrior(r)
  \/ MethodNotAllowedReturn(r)
  \/ Respond(r)

NextPrior ==
  \/ \E n \in DOMAIN layer : Construct(n)
  \/ \E r \in Requests : StepPrior(r)

SpecPrior == InitPrior /\ [][NextPrior]_vars

-----------------------------------------------------------------------------
(* Properties of path matching *)

\* a captured text percent-decoded when every escape in it is valid, raw
\* otherwise
Unescaped(segs) ==
  IF \E i \in 1..Len(segs) : Malformed(segs[i]) THEN segs
  ELSE [i \in 1..Len(segs) |-> decodeURIComponent(segs[i])]

\* the parameters a pattern's captures give: undefined for a slot that
\* captured nothing
Extracted(l, caps) ==
  [k \in 1..Len(caps) |->
     <<l.keys[k], IF caps[k].t = "val" THEN Val(Unescaped(caps[k].v)) ELSE Undefined>>]

\* the Layer has a pattern with named slots
Captures(l) == l.hasPath /\ ~l.single_star /\ ~l.no_params

\* C21: whenever the path of a request matches the pattern of a Layer whose
\* other gates let it pass, the Layer matches, and every parameter recorded
\* for a Layer is the captured text percent-decoded when its escapes are
\* valid and the raw captured text otherwise; no request is rejected with an
\* error because of an escape.
C21_DecodingNeverAborts ==
  \A r \in Requests : \A i \in 1..Len(layers[r]) :
    LET e == layers[r][i]
        l == layer[e.layer]
    IN /\ (Captures(l) /\ e.params.t = "map") =>
            e.params.m = Extracted(l, Exec(l.path.toks, path[r].segs).caps)
       /\ (l.single_star /\ e.params.t = "map") =>
            e.params.m = << <<"0", Val(Unescaped(path[r].segs))>> >>
       /\ (Captures(l) /\ path[r].t = "path" /\ Exec(l.path.toks, path[r].segs).ok
             /\ MethodGate(l, method[r]) /\ ~l.conditional) => Matched(e)
       /\ app = 7 => pc[r] # "raised"

\* /users/%zz matched a Layer that bound a parameter to the raw `%zz`
C21_Witness ==
  /\ app = 7 /\ path[1] = Path(TRUE, <<"users", "%zz">>)
  /\ \E i \in 1..Len(layers[1]) :
       /\ Matched(layers[1][i])
       /\ \E k \in 1..Len(layers[1][i].params.m) :
            layers[1][i].params.m[k][2] = Val(<<"%zz">>)

-----------------------------------------------------------------------------
(* Properties of method_not_allowed *)

\* C22: whenever method_not_allowed finds, after the downstream middleware
\* returned, that the request method is GET or HEAD, or that the headers
\* were sent, or that a body was set, or that the status is not 404, it
\* leaves the status and the body as it found them.
C22_NeverOverridesHandled ==
  \A r \in Requests :
    (/\ seen[r].n > 0
     /\ \/ method[r] \in {"GET", "HEAD"}
        \/ seen[r].before.headerSent
        \/ SetAtAll(seen[r].before.body)
        \/ seen[r].before.status # 404) =>
      /\ seen[r].after.status = seen[r].before.status
      /\ seen[r].after.body = seen[r].before.body

-----------------------------------------------------------------------------
(* Properties of the trace *)

\* node n lies in the stack of the Layer at node a, at any depth
RECURSIVE IsBelow(_, _)
IsBelow(n, a) ==
  LET p == Tree(app)[n].parent IN
    IF p = 0 THEN FALSE ELSE p = a \/ IsBelow(p, a)

\* the entries that the handler chain of entry i pushed: those of the Layers
\* in its stack
Below(ls, i) == {j \in (i + 1)..Len(ls) : IsBelow(ls[j].layer, ls[i].layer)}

\* the entry was pushed by a Layer whose gates all passed
PushedByMatch(e) == e.accepted # None

\* a request whose middleware all returned, none throwing
Completed(r) == pc[r] = "done"

\* C23 as stated: once a request is completed, the length of every entry of
\* a matching Layer is the number of entries its handler chain pushed after
\* it, and the length of every other entry is 0.
C23_CountsBelow ==
  \A r \in Requests :
    Completed(r) =>
      \A i \in 1..Len(layers[r]) :
        layers[r][i].length =
          IF PushedByMatch(layers[r][i]) THEN Cardinality(Below(layers[r], i)) ELSE 0

\* C23: once a request is completed, the length of every entry of a matching
\* Layer is one more than the number of entries its handler chain pushed
\* after it (the entry counts itself: 1 when no nested Layer ran), never -1,
\* and the length of every other entry is 0.
C23_CountsItself ==
  \A r \in Requests :
    Completed(r) =>
      \A i \in 1..Len(layers[r]) :
        layers[r][i].length =
          IF PushedByMatch(layers[r][i]) THEN 1 + Cardinality(Below(layers[r], i)) ELSE 0

\* a completed request whose trace holds a matching Layer under which no
\* Layer ran, one under which two ran, and a Layer that did not match
C23_Witness ==
  /\ Completed(1)
  /\ \E i, j, k \in 1..Len(layers[1]) :
       /\ PushedByMatch(layers[1][i]) /\ Below(layers[1], i) = {}
       /\ PushedByMatch(layers[1][j]) /\ Cardinality(Below(layers[1], j)) = 2
       /\ ~PushedByMatch(layers[1][k])

\* the walk of check() over a trace, from its first entry
Walked(ls) == Walk(ls, 1, <<"OPTIONS">>, 0, <<>>)

\* the walk reached the end of the trace
WalkedThrough(ls) == ~Walked(ls).ni \/ Walked(ls).at = Len(ls)

\* the subtree of entry e ends before the end of a trace of len entries
EndsEarly(e, len) == e.length > 1 /\ e.index + e.length < len

RECURSIVE Sum(_)
Sum(q) == IF q = <<>> THEN 0 ELSE Head(q) + Sum(Tail(q))

Owners(ls) == [i \in 1..Len(ls) |-> <<ls[i].layer, ls[i].index>>]

IsPrefix(a, b) == Len(a) <= Len(b) /\ SubSeq(b, 1, Len(a)) = a

\* the callback of a Layer is about to run for request r
Invoking(r) == pc[r] = "call" /\ KindOf(r) = "layer"

\* every entry records its own index in the trace
Numbered(ls) == \A i \in 1..Len(ls) : ls[i].index = i - 1

\* C25 as stated: every step keeps the owners and positions recorded so far
\* as a prefix of the trace, every entry records its index, every invocation
\* of a Layer adds exactly one entry and no other step adds any.
C25_OnePerInvocation ==
  [][\A r \in Requests :
       /\ IsPrefix(Owners(layers[r]), Owners(layers'[r]))
       /\ Numbered(layers'[r])
       /\ Len(layers'[r]) = Len(layers[r]) + (IF Invoking(r) THEN 1 ELSE 0)]_vars

\* the Layer whose invocation writes its entry in the next step of request r:
\* the one whose wrapped continuation is called, or the one whose chain
\* returns; 0 when the step is of neither kind
Writing(r) ==
  IF pc[r] = "call" /\ cur[r].t = "wrap" THEN cur[r].n
  ELSE IF pc[r] = "ret" /\ frames[r] # <<>> THEN TopFrame(r).node
  ELSE 0

\* C26: a step keeps every entry of the trace in its place and changes at most
\* the length and done fields of the entry of the Layer that is acting; a
\* length is written only over -1, and an appended entry belongs to the Layer
\* being invoked.
C26_OwnEntryOnly ==
  [][\A r \in Requests :
       /\ Len(layers'[r]) >= Len(layers[r])
       /\ \A i \in 1..Len(layers[r]) :
            LET e == layers[r][i]
                d == layers'[r][i]
            IN /\ [d EXCEPT !.length = e.length, !.done = e.done] = e
               /\ d # e => e.layer = Writing(r)
               /\ d.length # e.length => e.length = -1 /\ d.length >= 1
       /\ \A i \in (Len(layers[r]) + 1)..Len(layers'[r]) :
            Invoking(r) /\ layers'[r][i].layer = cur[r].n]_vars

\* a completed request whose trace holds a matched entry with its length
\* written and entries appended after the ones it counts
C26_Witness ==
  /\ Completed(1)
  /\ \E i \in 1..Len(layers[1]) :
       /\ PushedByMatch(layers[1][i])
       /\ layers[1][i].length >= 2
       /\ layers[1][i].index + layers[1][i].length < Len(layers[1])

------------------------------------------------------------------------------
(* Properties of the gates *)

\* the gates of Layer l in the order of the callback
Gates(l) == <<"method">> \o Guarded(l) \o <<"path", "accept">>

Last(q) == q[Len(q)]

\* C27: an invocation consults the gates in the order method, guard, path,
\* negotiation and stops at the first one that fails: the guard is not
\* consulted when the method is refused, the path is consulted only after the
\* method was accepted, and a negotiation of the offered types that yields no
\* type fails. An invocation that ends at a failing gate appends one entry
\* that did not match, leaves the parameters, the response and the running
\* stacks alone, and hands over to the continuation.
C27_GatesInOrder ==
  [][\A r \in Requests :
       Invoking(r) /\ Len(layers'[r]) > Len(layers[r]) =>
         LET n == cur[r].n
             l == layer[n]
             a == asked'[r]
             e == Last(layers'[r])
         IN /\ a # <<>> /\ IsPrefix(a, Gates(l))
            /\ MethodGate(l, method[r]) <=> Len(a) > 1
            /\ (\E k \in 1..Len(a) : a[k] = "path") =>
                 (Layer_match(l, path[r]).t = "none" <=> Last(a) = "path")
            /\ PushedByMatch(e) =>
                 /\ a = Gates(l)
                 /\ ~(l.accepts # <<>> /\ accept[r] # None /\ e.accepted = Arr(<<>>))
            /\ ~PushedByMatch(e) =>
                 /\ Len(layers'[r]) = Len(layers[r]) + 1
                 /\ e.layer = n /\ e.length = 0
                 /\ params'[r] = params[r]
                 /\ res'[r] = res[r]
                 /\ frames'[r] = frames[r]
                 /\ pc'[r] = "call" /\ cur'[r] = NextOf(n)]_vars

------------------------------------------------------------------------------
(* Properties of the walk of check() *)

\* check() has walked the trace of request r
WalkedBy(r) == Inspected(r) /\ seen[r].kind # "return"

\* entry e of a trace of len entries has entries under it and is the last
\* one with its subtree
ReachesEnd(e, len) == e.length > 1 /\ e.index + e.length = len

\* the positions under the entry at position i
Under(ls, i) == (i + 1)..(i + ls[i].length - 1)

\* C28 as stated: in a trace that check() walks, the entries under an entry
\* that is not skipped and whose subtree reaches the end of the trace are
\* skipped.
C28_SkipsToTheEnd ==
  \A r \in Requests :
    WalkedBy(r) =>
      LET ls == seen[r].trace
          top == Range(Walked(ls).top)
      IN \A i \in top : ReachesEnd(ls[i], Len(ls)) => Under(ls, i) \cap top = {}

\* C28: in a trace that check() walks, the entries under an entry that is not
\* skipped and whose subtree ends before the end of the trace are skipped;
\* after any other entry the walk goes on with the next entry, unless it
\* stopped there.
C28_SkipsEndedSubtrees ==
  \A r \in Requests :
    WalkedBy(r) =>
      LET ls == seen[r].trace
          w == Walked(ls)
          top == Range(w.top)
      IN \A i \in top :
           IF EndsEarly(ls[i], Len(ls))
           THEN Under(ls, i) \cap top = {} /\ i + ls[i].length \in top
           ELSE i < Len(ls) /\ w.at # i => i + 1 \in top

\* check() walked a trace in which a subtree of three entries is followed by
\* another entry
C28_Witness ==
  /\ WalkedBy(1)
  /\ \E i \in Range(Walked(seen[1].trace).top) :
       /\ EndsEarly(seen[1].trace[i], Len(seen[1].trace))
       /\ seen[1].trace[i].length >= 3

\* check() answered request r with 501, or raised NotImplemented, for the
\* entry at position i of the trace
Signalled(r, i) == WalkedBy(r) /\ seen[r].at = i /\ seen[r].kind \in {"501", "throw"}

\* C29 as stated: when check() walks a trace whose last entry is not skipped
\* and was recorded by a Layer that did not match, with nothing under it,
\* that entry is the 501 signal.
C29_MissSignals ==
  \A r \in Requests :
    WalkedBy(r) =>
      LET ls == seen[r].trace
          n == Len(ls)
      IN (n > 0 /\ n \in Range(Walked(ls).top) /\ ~PushedByMatch(ls[n]) /\ ls[n].length = 0)
           => Signalled(r, n)

\* C29: the entry check() takes as the 501 signal is the first entry it does
\* not skip that was recorded by a Layer that matched, whose stack returned
\* without calling the continuation and under which nothing was recorded; an
\* entry of a Layer that did not match is never the signal.
C29_DeadEndSignals ==
  \A r \in Requests :
    WalkedBy(r) =>
      LET ls == seen[r].trace
          top == Range(Walked(ls).top)
          dead == {i \in top : PushedByMatch(ls[i]) /\ ~ls[i].done /\ ls[i].length = 1}
      IN /\ \A i \in 1..Len(ls) : ~PushedByMatch(ls[i]) => ~Signalled(r, i)
         /\ \A i \in dead : (\A j \in dead : i <= j) => Signalled(r, i)
         /\ dead = {} => seen[r].at = 0

\* check() answered 501 for the last entry of a trace that begins with the
\* entry of a Layer that did not match
C29_Witness ==
  /\ Signalled(1, Len(seen[1].trace))
  /\ seen[1].kind = "501"
  /\ Len(seen[1].trace) >= 2
  /\ ~PushedByMatch(seen[1].trace[1])

\* the positions of the entries whose length was not written when check()
\* looked at the trace of request r
Unfinished(r) == {i \in 1..Len(seen[r].trace) : seen[r].trace[i].length = -1}

\* C30: when check() walks a trace holding an entry whose length is still -1,
\* it raises nothing unless configured to raise, the Allow header it writes
\* holds the methods of that entry's Layer, the entry is not the 501 signal,
\* and the walk goes on with the entry after it.
C30_ToleratesUnfinished ==
  \A r \in Requests :
    WalkedBy(r) =>
      LET ls == seen[r].trace
          top == Range(Walked(ls).top)
      IN \A i \in Unfinished(r) :
           /\ seen[r].kind \in {"501", "200", "405", "pass", "throw"}
           /\ seen[r].kind = "throw" => Raises405 \/ Raises501
           /\ seen[r].kind \in {"501", "200", "405"} =>
                Range(Declared(ls[i])) \subseteq Range(seen[r].after.allow.l)
           /\ ~Signalled(r, i)
           /\ i \in top /\ i < Len(ls) => i + 1 \in top

\* check(), mounted in the stack of a Layer that declares methods, answered
\* 501 while the entry of that Layer was unfinished and followed by another
C30_Witness ==
  /\ WalkedBy(1) /\ seen[1].kind = "501"
  /\ \E i \in Unfinished(1) :
       /\ Declared(seen[1].trace[i]) # <<>>
       /\ i < Len(seen[1].trace)

------------------------------------------------------------------------------
(* Properties of the choice among the accept-specs *)

\* the accept-spec of header h that is best for the offered type `full`: the
\* most specific of those matching it, among these the one of highest
\* quality, among these the one listed first; 0 when none matches
BestSpec(h, full) ==
  LET best == MostSpecific(h, full)
      top == {i \in best : \A j \in best : QualityOf(h.h[j]) <= QualityOf(h.h[i])}
  IN IF best = {} THEN 0 ELSE CHOOSE i \in top : \A j \in top : i <= j

\* C31: every offered type accepts() returns, called with a fresh header
\* regex, carries the quality and the header position of the accept-spec that
\* is best for it: the most specific match, then the highest quality, then
\* the one listed first.
C31_BestSpec ==
  (RankReturned /\ called.now.from = 0) =>
    \A i \in 1..Len(Ranked) :
      LET b == BestSpec(called.now.header, Ranked[i].full_type) IN
        /\ b # 0
        /\ Ranked[i].quality = QualityOf(called.now.header.h[b])
        /\ Ranked[i].other_index = b - 1

\* C32: the accept-spec that gives a returned offered type its quality
\* matches it: type and subtype are equal or a wildcard, and every parameter
\* of the spec other than q is `*`, the offered types carrying no parameter.
C32_ParametersMatch ==
  (RankReturned /\ called.now.from = 0) =>
    \A i \in 1..Len(Ranked) :
      /\ Ranked[i].other_index + 1 \in 1..Len(called.now.header.h)
      /\ SpecMatches(called.now.header.h[Ranked[i].other_index + 1], Ranked[i].full_type)

------------------------------------------------------------------------------
(* Properties of Layer.match on the paths a host may hand over *)

------------------------------------------------------------------------------
(* Properties of a Layer invoked again *)

\* what an invocation decides: whether it throws, whether it matches, and
\* the parameters it extracts
Verdict(d) == <<d.threw, d.match, d.params>>

\* C34: whenever the callback of a Layer is about to run for a request, what
\* it decides now and what it would decide when invoked once more on the same
\* method, path, header and answer of the guard are the same, and merging the
\* extracted parameters a second time leaves the parameter map as the first
\* merge left it.
C34_SameAgain ==
  \A r \in DOMAIN pc :
    Invoking(r) =>
      \A c \in BOOLEAN :
        LET l == layer[cur[r].n]
            first == Decide(l, method[r], c, path[r], accept[r], lastIndex)
            again == Decide(l, method[r], c, path[r], accept[r], first.lastIndex)
        IN /\ Verdict(again) = Verdict(first)
           /\ first.match =>
                Merge(Merge(params[r], first.params.m), again.params.m)
                  = Merge(params[r], first.params.m)

------------------------------------------------------------------------------
(* Properties of the walk of method_not_allowed *)

\* method_not_allowed found the request of r unhandled and not GET or HEAD
LeftUnhandled(r) ==
  /\ seen[r].n > 0 /\ seen[r].traced
  /\ method[r] \notin {"GET", "HEAD"}
  /\ ~seen[r].before.headerSent
  /\ seen[r].before.body = None
  /\ seen[r].before.status = Unhandled

\* the entries after entry e of a trace of len entries are its children and
\* more entries follow them
ChildrenEndEarly(e, len) == e.length > 0 /\ e.index + e.length + 1 < len

\* the positions of a trace met when the children of every entry met are
\* passed over, unless they reach the end of the trace
RECURSIVE Met(_, _, _)
Met(ls, i, skip) ==
  IF i > Len(ls) THEN {}
  ELSE IF skip > 0 THEN Met(ls, i + 1, skip - 1)
  ELSE {i} \cup Met(ls, i + 1, IF ChildrenEndEarly(ls[i], Len(ls)) THEN ls[i].length ELSE 0)

\* C35: method_not_allowed, finding a request that is not GET or HEAD
\* unhandled, answers 405 (400 to HTTP/1.0) with the body naming the method
\* exactly when the trace holds an entry of a Layer that does not accept the
\* method and that is not a child passed over; children are passed over
\* unless they reach the end of the trace.
C35_ChecksTailingChildren ==
  \A r \in Requests :
    LeftUnhandled(r) =>
      LET ls == seen[r].trace
          refused == \E i \in Met(ls, 1, 0) : ~MethodGate(layer[ls[i].layer], method[r])
      IN IF refused
         THEN /\ seen[r].after.status = IF httpVersion[r] = "1.0" THEN 400 ELSE 405
              /\ seen[r].after.body = NotAllowedBody(method[r])
         ELSE seen[r].after = seen[r].before

------------------------------------------------------------------------------
(* Properties of the ranges the entries record *)

\* the positions entry e counts: itself and the length - 1 entries after it
RangeOf(e) == (e.index + 1)..(e.index + e.length)

Finalized(e) == e.length # -1

\* C36: in every state the entries an entry with a written length counts lie
\* inside the trace, and the ranges of two entries of Layers that matched are
\* disjoint or one lies inside the other.
C36_RangesNest ==
  \A r \in Requests :
    LET ls == layers[r] IN
      /\ \A i \in 1..Len(ls) : Finalized(ls[i]) => ls[i].index + ls[i].length <= Len(ls)
      /\ \A i, j \in 1..Len(ls) :
           (PushedByMatch(ls[i]) /\ PushedByMatch(ls[j]) /\ Finalized(ls[i]) /\ Finalized(ls[j])) =>
             \/ RangeOf(ls[i]) \cap RangeOf(ls[j]) = {}
             \/ RangeOf(ls[i]) \subseteq RangeOf(ls[j])
             \/ RangeOf(ls[j]) \subseteq RangeOf(ls[i])

\* a trace with a matched entry that counts another matched entry and is
\* followed by a third one it does not count
C36_Witness ==
  \E i, j, k \in 1..Len(layers[1]) :
    /\ i < j /\ j < k
    /\ \A x \in {i, j, k} : PushedByMatch(layers[1][x]) /\ Finalized(layers[1][x])
    /\ j \in RangeOf(layers[1][i])
    /\ k \notin RangeOf(layers[1][i])

------------------------------------------------------------------------------
(* Properties of the dead end *)

\* the check() that walked the trace of request r is mounted on the
\* application itself, not in the stack of a Layer
Outermost(r) == WalkedBy(r) /\ Tree(app)[seen[r].by].parent = 0

\* C37: in the trace a check() mounted on the application walks, every entry
\* of a Layer that matched and whose continuation was not called counts up to
\* the end of the trace; the entry answered with 501 is the last one, so that
\* the Allow header of a 501 holds the methods of every recorded Layer; and
\* no entry the walk skips is a dead end.
C37_DeadEndIsLast ==
  \A r \in Requests :
    Outermost(r) =>
      LET ls == seen[r].trace
          w == Walked(ls)
      IN /\ \A i \in 1..Len(ls) :
              (PushedByMatch(ls[i]) /\ ~ls[i].done) =>
                Finalized(ls[i]) /\ ls[i].index + ls[i].length = Len(ls)
         /\ seen[r].at # 0 => seen[r].at = Len(ls)
         /\ seen[r].kind = "501" => Range(seen[r].after.allow.l) = MethodUnion(ls)
         /\ \A i \in (1..Len(ls)) \ Range(w.top) : ~(~ls[i].done /\ ls[i].length = 1)

\* a check() mounted on the application answered 501 for the last entry of a
\* trace in which a Layer that matched, two entries earlier, was left without
\* its continuation being called
C37_Witness ==
  /\ Outermost(1) /\ seen[1].kind = "501"
  /\ Len(seen[1].trace) >= 3
  /\ seen[1].at = Len(seen[1].trace)
  /\ \E i \in 1..(Len(seen[1].trace) - 2) :
       PushedByMatch(seen[1].trace[i]) /\ ~seen[1].trace[i].done

------------------------------------------------------------------------------
(* Properties of the outcomes of check() *)

Written == {"501", "200", "405"}

\* the trace check() walked for request r holds a dead end
MetDeadEnd(r) == \E i \in 1..Len(seen[r].trace) : DeadEnd(seen[r].trace[i])

\* what check() did for request r is one outcome, the first that applies of
\* 501, the reply to OPTIONS and 405
OneOutcome(r) ==
  WalkedBy(r) =>
    /\ MetDeadEnd(r) =>
         /\ seen[r].kind \in {"501", "throw"}
         /\ seen[r].kind = "501" => seen[r].after.status = 501
         /\ seen[r].kind = "throw" =>
              seen[r].raised \in {"NotImplemented", "custom"} /\ seen[r].after = seen[r].before
    /\ (~MetDeadEnd(r) /\ method[r] = "OPTIONS") =>
         seen[r].kind = "200" /\ seen[r].after.status = 200
    /\ (~MetDeadEnd(r) /\ method[r] # "OPTIONS") =>
         /\ seen[r].kind \in {"405", "pass", "throw"}
         /\ seen[r].kind = "405" => seen[r].after.status = 405

\* C38: check() answers a request once, with the first that applies of 501,
\* the reply to OPTIONS and 405: a trace with a dead end is answered 501, or
\* NotImplemented is raised, whatever the method, OPTIONS included; and once
\* a check() has written one of the three, no check() writes another for
\* that request.
C38_OneOutcome ==
  /\ [](\A r \in Requests : OneOutcome(r))
  /\ [][\A r \in Requests :
          (seen'[r] # seen[r] /\ seen'[r].kind \in Written) => seen[r].kind \notin Written]_vars

\* an OPTIONS request whose trace ends in a dead end was answered 501
C38_Witness ==
  /\ WalkedBy(1) /\ method[1] = "OPTIONS"
  /\ MetDeadEnd(1)
  /\ seen[1].kind = "501"

\* C39: a check() that finds no trace, no Layer having been invoked for the
\* request, returns: it raises nothing and leaves status, body and headers as
\* it found them, whatever the method and the options.
C39_NoTraceNoAnswer ==
  \A r \in Requests :
    (seen[r].n > 0 /\ ~seen[r].traced) =>
      /\ seen[r].kind = "return"
      /\ seen[r].raised = ""
      /\ seen[r].after = seen[r].before
      /\ res[r] = seen[r].before
      /\ pc[r] # "raised"

\* an OPTIONS request ended, unanswered, before any Layer was invoked, and
\* check() left it unanswered
C39_Witness ==
  /\ seen[1].n > 0 /\ ~seen[1].traced
  /\ method[1] = "OPTIONS"
  /\ seen[1].before.status = Unhandled /\ ~seen[1].before.headerSent
  /\ res[1].status = Unhandled /\ res[1].allow = None

====
